---- MODULE Spec2Model ----
(***************************************************************************)
(* Sleep-Tracker backend: the request pipeline of api/ (sanitizer,         *)
(* validator, prompt builder, LLM gateway, response parser, request        *)
(* handler) and the server's middleware chain, as a state machine.         *)
(*                                                                         *)
(* JavaScript strings are sequences of one-character strings; characters   *)
(* that TLA+ cannot write are named by their code ("<00>", "<0B>", "<7F>").*)
(* JavaScript values are records of one shape, so that values of different *)
(* JavaScript types can sit in one set.                                    *)
(***************************************************************************)
EXTENDS Integers, Sequences, FiniteSets, TLC

VARIABLES
    sanIn,      \* sanitizer run: the argument of sanitizeSleepData
    sanOut,     \* sanitizer run: the results of the calls made so far
    sanPc,      \* sanitizer run: "idle" | "start" | "once" | "twice"
    strIn,      \* string run: the argument of sanitizeString
    strOut,     \* string run: the results of the calls made so far
    strPc,      \* string run: "idle" | "start" | "once" | "twice"
    processEnv, \* process.env: [apiKey (OPENAI_API_KEY is set), nodeEnv]
    slots,      \* the requests in flight: slot -> [pc, req, trace, ...]
    rl,         \* the limiter's store: client key -> [totalHits, windowStart]
    now,        \* the server's clock, in milliseconds
    served,     \* per client key, the requests of its latest window that were
                \* passed on by the limiter: [totalHits, windowStart]
    fnIn,       \* function run: the argument of the function under study
    fnOut,      \* function run: its result
    fnPc        \* function run: "idle" | "start" | "done"

(***************************************************************************)
(* Characters and strings                                                  *)
(***************************************************************************)
Digits == {"0", "1", "2", "3", "4", "5", "6", "7", "8", "9"}

DigitVal(c) ==
    CASE c = "0" -> 0 [] c = "1" -> 1 [] c = "2" -> 2 [] c = "3" -> 3
      [] c = "4" -> 4 [] c = "5" -> 5 [] c = "6" -> 6 [] c = "7" -> 7
      [] c = "8" -> 8 [] c = "9" -> 9

DigitChar(d) == <<"0", "1", "2", "3", "4", "5", "6", "7", "8", "9">>[d + 1]

\* what \s, String.prototype.trim and parseInt's leading-blank skip treat as blank
WhiteSpace == {" ", "\t", "\n", "\r", "<0B>", "<0C>", "<A0>"}

Min(a, b) == IF a < b THEN a ELSE b
Max(a, b) == IF a > b THEN a ELSE b

\* the decimal digits of a natural number
RECURSIVE NatToStr(_)
NatToStr(n) ==
    IF n < 10 THEN <<DigitChar(n)>>
    ELSE NatToStr(n \div 10) \o <<DigitChar(n % 10)>>

\* Number.prototype.toString of an integer
IntToStr(n) == IF n < 0 THEN <<"-">> \o NatToStr(-n) ELSE NatToStr(n)

(***************************************************************************)
(* JavaScript values.  A leaf is [t, n, s]:                                *)
(*   "num"   the integer n                 "dec"  the number n/10          *)
(*   "exp"   the number n * 10^21          "nan"  NaN                      *)
(*   "inf"   Infinity (n = 1) or -Infinity (n = -1)                        *)
(*   "str"   the string s                  "null", "undef", "true"         *)
(*   "obj"   a plain object                "arr1" the array [n]            *)
(***************************************************************************)
Num(n)  == [t |-> "num",   n |-> n, s |-> <<>>]
Dec(n)  == [t |-> "dec",   n |-> n, s |-> <<>>]
Exp(n)  == [t |-> "exp",   n |-> n, s |-> <<>>]
Inf(n)  == [t |-> "inf",   n |-> n, s |-> <<>>]
Str(s)  == [t |-> "str",   n |-> 0, s |-> s]
Arr1(n) == [t |-> "arr1",  n |-> n, s |-> <<>>]
NaN     == [t |-> "nan",   n |-> 0, s |-> <<>>]
Null    == [t |-> "null",  n |-> 0, s |-> <<>>]
Undef   == [t |-> "undef", n |-> 0, s |-> <<>>]
True    == [t |-> "true",  n |-> 0, s |-> <<>>]
Obj     == [t |-> "obj",   n |-> 0, s |-> <<>>]

\* an object whose toString property is not a function, as JSON.parse makes
\* of {"toString": 1}: ToString of it throws a TypeError
NoString == [t |-> "nostr", n |-> 0, s |-> <<>>]

\* parseInt(value, 10) throws where ToString(value) does
ToStringThrows(v) == v.t = "nostr"

\* ToString(value) of ECMAScript, the first step of parseInt
JsToString(v) ==
    CASE v.t = "num"   -> IntToStr(v.n)
      [] v.t = "dec"   -> (IF v.n < 0 THEN <<"-">> ELSE <<>>)
                          \o NatToStr((IF v.n < 0 THEN -v.n ELSE v.n) \div 10)
                          \o <<".">>
                          \o <<DigitChar((IF v.n < 0 THEN -v.n ELSE v.n) % 10)>>
      [] v.t = "exp"   -> IntToStr(v.n) \o <<"e", "+", "2", "1">>
      [] v.t = "nan"   -> <<"N", "a", "N">>
      [] v.t = "inf"   -> (IF v.n < 0 THEN <<"-">> ELSE <<>>)
                          \o <<"I", "n", "f", "i", "n", "i", "t", "y">>
      [] v.t = "str"   -> v.s
      [] v.t = "arr1"  -> IntToStr(v.n)
      [] v.t = "null"  -> <<"n", "u", "l", "l">>
      [] v.t = "undef" -> <<"u", "n", "d", "e", "f", "i", "n", "e", "d">>
      [] v.t = "true"  -> <<"t", "r", "u", "e">>
      [] v.t = "obj"   -> <<"[", "o", "b", "j", "e", "c", "t", " ",
                            "O", "b", "j", "e", "c", "t", "]">>

\* s without its leading blanks
RECURSIVE SkipBlanks(_)
SkipBlanks(s) ==
    IF s # <<>> /\ Head(s) \in WhiteSpace THEN SkipBlanks(Tail(s)) ELSE s

\* the value of the longest prefix of digits of s, continuing from acc
RECURSIVE DigitsValue(_, _)
DigitsValue(s, acc) ==
    IF s # <<>> /\ Head(s) \in Digits
    THEN DigitsValue(Tail(s), acc * 10 + DigitVal(Head(s)))
    ELSE acc

\* parseInt(value, 10): [nan, v]
parseInt(v) ==
    LET str    == SkipBlanks(JsToString(v))
        neg    == str # <<>> /\ Head(str) = "-"
        signed == str # <<>> /\ Head(str) \in {"-", "+"}
        rest   == IF signed THEN Tail(str) ELSE str
    IN  IF rest = <<>> \/ Head(rest) \notin Digits
        THEN [nan |-> TRUE, v |-> 0]
        ELSE [nan |-> FALSE,
              v   |-> IF neg THEN -DigitsValue(rest, 0) ELSE DigitsValue(rest, 0)]

(***************************************************************************)
(* config/index.js: validation limits                                      *)
(***************************************************************************)
maxStringLength == 500
HoursMin == 0
HoursMax == 24
MinutesMin == 0
MinutesMax == 59
AwakeMinutesMin == 0
AwakeMinutesMax == 480
SleepPhaseHoursMin == 0
SleepPhaseHoursMax == 12

(***************************************************************************)
(* sanitizers/inputSanitizer.js                                            *)
(***************************************************************************)
\* a variant that clamps from above only
sanitizeNumberNoLowerClamp(num, min, max) ==
    LET parsed == parseInt(num)
    IN  IF parsed.nan THEN min ELSE Min(max, parsed.v)

sanitizeNumber(num, min, max) ==
    LET parsed == parseInt(num)
    IN  IF parsed.nan THEN min ELSE Max(min, Min(max, parsed.v))

Midnight == <<"0", "0", ":", "0", "0">>

\* /^([0-1]?[0-9]|2[0-3]):([0-5][0-9])$/ on a string
TimeRegexMatches(s) ==
    \/ /\ Len(s) = 4
       /\ s[1] \in Digits
       /\ s[2] = ":"
       /\ s[3] \in {"0", "1", "2", "3", "4", "5"}
       /\ s[4] \in Digits
    \/ /\ Len(s) = 5
       /\ \/ s[1] \in {"0", "1"} /\ s[2] \in Digits
          \/ s[1] = "2" /\ s[2] \in {"0", "1", "2", "3"}
       /\ s[3] = ":"
       /\ s[4] \in {"0", "1", "2", "3", "4", "5"}
       /\ s[5] \in Digits

\* a variant in which every string is kept as a time
sanitizeTimeAnyString(time) ==
    IF time.t # "str" THEN Str(Midnight) ELSE time

sanitizeTime(time) ==
    IF time.t # "str" THEN Str(Midnight)
    ELSE IF TimeRegexMatches(time.s) THEN time ELSE Str(Midnight)

\* new Date().toISOString().split('T')[0], held fixed during a run
Today == <<"2", "0", "2", "6", "-", "1", "1", "-", "0", "3">>

\* /^\d{4}-\d{2}-\d{2}$/ on a string
DateRegexMatches(s) ==
    /\ Len(s) = 10
    /\ \A i \in {1, 2, 3, 4, 6, 7, 9, 10} : s[i] \in Digits
    /\ s[5] = "-"
    /\ s[8] = "-"

\* !isNaN(new Date(s).getTime()) for a string of the YYYY-MM-DD shape: the
\* runtime's date parser takes month 1..12 and day 1..31 and lets the day
\* run over into the next month
DateParses(s) ==
    LET month == DigitVal(s[6]) * 10 + DigitVal(s[7])
        day   == DigitVal(s[9]) * 10 + DigitVal(s[10])
    IN  month \in 1..12 /\ day \in 1..31

\* a variant that replaces only strings
sanitizeDateOnlyStrings(date) ==
    IF date.t # "str" THEN date
    ELSE IF ~DateRegexMatches(date.s) THEN Str(Today)
    ELSE IF ~DateParses(date.s) THEN Str(Today)
    ELSE date

sanitizeDate(date) ==
    IF date.t # "str" THEN Str(Today)
    ELSE IF ~DateRegexMatches(date.s) THEN Str(Today)
    ELSE IF ~DateParses(date.s) THEN Str(Today)
    ELSE date

(***************************************************************************)
(* A request body / sleep record is [k, date, totalSleep, awake, rem,      *)
(* light, deep, sleepTime]; k is the kind of the value itself ("obj",      *)
(* "arr", "null", "undef", "truthy" or "falsy" for a primitive).  date is  *)
(* a leaf; every other field is a sub-value [k, hours, minutes, from, to]  *)
(* of the same kinds, whose properties exist only when it is an object.    *)
(***************************************************************************)
SubFields == {"totalSleep", "awake", "rem", "light", "deep", "sleepTime"}

MkSub(k, hours, minutes, from, to) ==
    [k |-> k, hours |-> hours, minutes |-> minutes, from |-> from, to |-> to]

Duration(h, m) == MkSub("obj", h, m, Undef, Undef)
OnlyMinutes(m) == MkSub("obj", Undef, m, Undef, Undef)
TimeSpan(f, t) == MkSub("obj", Undef, Undef, f, t)
NoSub(k)       == MkSub(k, Undef, Undef, Undef, Undef)

NonValue(k) ==
    [k |-> k, date |-> Undef, totalSleep |-> NoSub("undef"),
     awake |-> NoSub("undef"), rem |-> NoSub("undef"), light |-> NoSub("undef"),
     deep |-> NoSub("undef"), sleepTime |-> NoSub("undef")]

JsNull == NonValue("null")
EmptyObject == NonValue("obj")

\* sub?.name : undefined unless sub is an object that has the property
Prop(sub, name) == IF sub.k = "obj" THEN sub[name] ELSE Undef

\* typeof data === 'object' and data is truthy
IsTruthyObject(data) == data.k \in {"obj", "arr"}

\* data.name of a body: an array has none of the record's properties
Field(data, name) == IF data.k = "obj" THEN data[name] ELSE NoSub("undef")

\* a variant in which the minutes are read from the hours property
sanitizeDurationMinutesFromHours(sub, hmin, hmax) ==
    Duration(Num(sanitizeNumber(Prop(sub, "hours"), hmin, hmax)),
             Num(sanitizeNumber(Prop(sub, "hours"), MinutesMin, MinutesMax)))

\* { hours: sanitizeNumber(x?.hours, ..), minutes: sanitizeNumber(x?.minutes, ..) }
sanitizeDuration(sub, hmin, hmax) ==
    Duration(Num(sanitizeNumber(Prop(sub, "hours"), hmin, hmax)),
             Num(sanitizeNumber(Prop(sub, "minutes"), MinutesMin, MinutesMax)))

\* the outcome of a call that threw
Thrown == NonValue("throw")

\* the values handed to sanitizeNumber
NumberArguments(data) ==
    { Prop(Field(data, f), "hours") : f \in {"totalSleep", "rem", "light", "deep"} }
    \cup { Prop(Field(data, f), "minutes") :
              f \in {"totalSleep", "awake", "rem", "light", "deep"} }

sanitizeSleepData(data) ==
    IF ~IsTruthyObject(data) THEN JsNull
    ELSE IF \E v \in NumberArguments(data) : ToStringThrows(v) THEN Thrown
    ELSE
    [k |-> "obj",
     date |-> sanitizeDate(IF data.k = "obj" THEN data.date ELSE Undef),
     totalSleep |-> sanitizeDuration(Field(data, "totalSleep"), HoursMin, HoursMax),
     awake |-> OnlyMinutes(
        Num(sanitizeNumber(Prop(Field(data, "awake"), "minutes"),
                           AwakeMinutesMin, AwakeMinutesMax))),
     rem   |-> sanitizeDuration(Field(data, "rem"), SleepPhaseHoursMin, SleepPhaseHoursMax),
     light |-> sanitizeDuration(Field(data, "light"), SleepPhaseHoursMin, SleepPhaseHoursMax),
     deep  |-> sanitizeDuration(Field(data, "deep"), SleepPhaseHoursMin, SleepPhaseHoursMax),
     sleepTime |-> TimeSpan(
        sanitizeTime(Prop(Field(data, "sleepTime"), "from")),
        sanitizeTime(Prop(Field(data, "sleepTime"), "to")))]

(***************************************************************************)
(* sanitizeString and its patterns.  A pattern is a list of literal words, *)
(* each followed by any number of blanks, and then one of a list of        *)
(* alternatives, tried in order; all of them carry the flags g and i.      *)
(***************************************************************************)
\* the words of the patterns, and the two halves of the last one
W ==
    [ ignore |-> <<"i", "g", "n", "o", "r", "e">>,
      all |-> <<"a", "l", "l">>,
      previous |-> <<"p", "r", "e", "v", "i", "o", "u", "s">>,
      above |-> <<"a", "b", "o", "v", "e">>,
      system |-> <<"s", "y", "s", "t", "e", "m">>,
      prompt |-> <<"p", "r", "o", "m", "p", "t">>,
      you |-> <<"y", "o", "u">>,
      are |-> <<"a", "r", "e">>,
      now |-> <<"n", "o", "w">>,
      a |-> <<"a">>,
      pretend |-> <<"p", "r", "e", "t", "e", "n", "d">>,
      to |-> <<"t", "o">>,
      act |-> <<"a", "c", "t">>,
      as |-> <<"a", "s">>,
      if |-> <<"i", "f">>,
      forget |-> <<"f", "o", "r", "g", "e", "t">>,
      everything |-> <<"e", "v", "e", "r", "y", "t", "h", "i", "n", "g">>,
      new |-> <<"n", "e", "w">>,
      instruction |-> <<"i", "n", "s", "t", "r", "u", "c", "t", "i", "o", "n">>,
      over |-> <<"o", "v", "e", "r">>,
      ride |-> <<"r", "i", "d", "e">>,
      override |-> <<"o", "v", "e", "r", "r", "i", "d", "e">> ]

INJECTION_PATTERNS ==
    << [words |-> <<W.ignore>>,       alts |-> <<W.all, W.previous, W.above>>],
       [words |-> <<W.system>>,       alts |-> <<W.prompt>>],
       [words |-> <<W.you, W.are>>,   alts |-> <<W.now, W.a>>],
       [words |-> <<W.pretend>>,      alts |-> <<W.to, W.you>>],
       [words |-> <<W.act, W.as>>,    alts |-> <<W.if, W.a>>],
       [words |-> <<W.forget>>,       alts |-> <<W.everything, W.all, W.previous>>],
       [words |-> <<W.new>>,          alts |-> <<W.instruction>>],
       [words |-> <<>>,               alts |-> <<W.override>>] >>

\* /[\x00-\x08\x0B\x0C\x0E-\x1F\x7F]/
CONTROL_CHARS ==
    { "<00>", "<01>", "<02>", "<03>", "<04>", "<05>", "<06>", "<07>", "<08>",
      "<0B>", "<0C>",
      "<0E>", "<0F>", "<10>", "<11>", "<12>", "<13>", "<14>", "<15>", "<16>",
      "<17>", "<18>", "<19>", "<1A>", "<1B>", "<1C>", "<1D>", "<1E>", "<1F>",
      "<7F>" }

UpperCase == <<"A", "B", "C", "D", "E", "F", "G", "H", "I", "J", "K", "L", "M", "N", "O", "P", "Q", "R", "S", "T", "U", "V", "W", "X", "Y", "Z">>
LowerCase == <<"a", "b", "c", "d", "e", "f", "g", "h", "i", "j", "k", "l", "m", "n", "o", "p", "q", "r", "s", "t", "u", "v", "w", "x", "y", "z">>

\* the case folding of the i flag (ASCII letters only, without the u flag)
Lower(c) ==
    IF \E i \in 1..26 : UpperCase[i] = c
    THEN LowerCase[CHOOSE i \in 1..26 : UpperCase[i] = c]
    ELSE c

\* the index after the literal word w matched at index i of s, or 0
WordEnd(s, i, w) ==
    IF /\ i + Len(w) - 1 <= Len(s)
       /\ \A j \in 1..Len(w) : Lower(s[i + j - 1]) = w[j]
    THEN i + Len(w)
    ELSE 0

\* the index after the longest run of blanks starting at index i of s
RECURSIVE BlanksEnd(_, _)
BlanksEnd(s, i) ==
    IF i <= Len(s) /\ s[i] \in WhiteSpace THEN BlanksEnd(s, i + 1) ELSE i

\* the index after the first alternative (from number k on) that matches at i, or 0
RECURSIVE AltEnd(_, _, _, _)
AltEnd(s, i, alts, k) ==
    IF k > Len(alts) THEN 0
    ELSE IF WordEnd(s, i, alts[k]) # 0 THEN WordEnd(s, i, alts[k])
    ELSE AltEnd(s, i, alts, k + 1)

\* the index after the match of the pattern's words from number k on and then
\* its alternatives, the match starting at index i of s; 0 when there is none
RECURSIVE PatternEnd(_, _, _, _)
PatternEnd(s, i, pat, k) ==
    IF k > Len(pat.words) THEN AltEnd(s, i, pat.alts, 1)
    ELSE IF WordEnd(s, i, pat.words[k]) = 0 THEN 0
    ELSE PatternEnd(s, BlanksEnd(s, WordEnd(s, i, pat.words[k])), pat, k + 1)

\* s.replace(pattern, '') with the g flag, from index i on: matches are taken
\* leftmost first and the scan goes on after each match
RECURSIVE ReplaceFrom(_, _, _)
ReplaceFrom(s, i, pat) ==
    IF i > Len(s) THEN <<>>
    ELSE IF PatternEnd(s, i, pat, 1) # 0
         THEN ReplaceFrom(s, PatternEnd(s, i, pat, 1), pat)
         ELSE <<s[i]>> \o ReplaceFrom(s, i + 1, pat)

\* for (const pattern of INJECTION_PATTERNS) sanitized = sanitized.replace(pattern, '')
RECURSIVE RemovePatterns(_, _)
RemovePatterns(s, k) ==
    IF k > Len(INJECTION_PATTERNS) THEN s
    ELSE RemovePatterns(ReplaceFrom(s, 1, INJECTION_PATTERNS[k]), k + 1)

\* s.replace(CONTROL_CHARS, '')
RECURSIVE RemoveControlChars(_)
RemoveControlChars(s) ==
    IF s = <<>> THEN <<>>
    ELSE IF Head(s) \in CONTROL_CHARS THEN RemoveControlChars(Tail(s))
    ELSE <<Head(s)>> \o RemoveControlChars(Tail(s))

\* s without its trailing blanks
RECURSIVE DropTrailingBlanks(_)
DropTrailingBlanks(s) ==
    IF s # <<>> /\ s[Len(s)] \in WhiteSpace
    THEN DropTrailingBlanks(SubSeq(s, 1, Len(s) - 1))
    ELSE s

Trim(s) == DropTrailingBlanks(SkipBlanks(s))

\* s.substring(0, n)
Substring0(s, n) == SubSeq(s, 1, Min(Len(s), Max(n, 0)))

sanitizeString(str, maxLength) ==
    IF str.t # "str" THEN <<>>
    ELSE Substring0(Trim(RemoveControlChars(RemovePatterns(str.s, 1))), maxLength)

\* some pattern matches somewhere in s
ContainsInjection(s) ==
    \E k \in 1..Len(INJECTION_PATTERNS) :
        \E i \in 1..Len(s) : PatternEnd(s, i, INJECTION_PATTERNS[k], 1) # 0

(***************************************************************************)
(* JavaScript coercions the validator and the prompt builder rely on       *)
(***************************************************************************)
\* Boolean(leaf)
Truthy(v) ==
    CASE v.t \in {"num", "dec", "exp"} -> v.n # 0
      [] v.t = "str" -> v.s # <<>>
      [] v.t \in {"nan", "null", "undef"} -> FALSE
      [] OTHER -> TRUE

\* Boolean(sub-value)
TruthySub(sub) == sub.k \in {"obj", "arr", "truthy"}

\* the index of the first "." of s, or Len(s) + 1
RECURSIVE DotIndex(_, _)
DotIndex(s, i) ==
    IF i > Len(s) \/ s[i] = "." THEN i ELSE DotIndex(s, i + 1)

\* ToNumber(string) > 0: the trimmed string is an optional sign, digits and an
\* optional fraction, it has no minus sign and some digit is not 0.  (Every
\* other string the model feeds is NaN or 0 to ToNumber; exponent, hexadecimal
\* and Infinity spellings are not among the inputs.)
StringGreaterThanZero(str) ==
    LET s    == Trim(str)
        body == IF s # <<>> /\ Head(s) \in {"-", "+"} THEN Tail(s) ELSE s
        dot  == DotIndex(body, 1)
    IN  /\ s # <<>>
        /\ Head(s) # "-"
        /\ dot > 1
        /\ \A i \in 1..Len(body) : i # dot => body[i] \in Digits
        /\ \E i \in 1..Len(body) : i # dot /\ body[i] # "0"

\* leaf > 0 (the leaf converted by ToNumber; NaN compares false)
GreaterThanZero(v) ==
    CASE v.t \in {"num", "dec", "exp", "inf", "arr1"} -> v.n > 0
      [] v.t = "true" -> TRUE
      [] v.t = "str" -> StringGreaterThanZero(v.s)
      [] OTHER -> FALSE

(***************************************************************************)
(* validators/sleepValidator.js                                            *)
(***************************************************************************)
REQUIRED_FIELDS == <<"date", "totalSleep", "rem", "light", "deep", "sleepTime">>

\* value !== null && typeof value === 'object' && !Array.isArray(value)
isObject(value) == value.k = "obj"

\* a variant that looks at the hours only
hasValidDurationHoursOnly(duration) ==
    IF ~isObject(duration) THEN FALSE
    ELSE Truthy(duration.hours) /\ GreaterThanZero(duration.hours)

\* hours = duration.hours || 0; minutes = duration.minutes || 0;
\* return hours > 0 || minutes > 0
hasValidDuration(duration) ==
    IF ~isObject(duration) THEN FALSE
    ELSE \/ Truthy(duration.hours) /\ GreaterThanZero(duration.hours)
         \/ Truthy(duration.minutes) /\ GreaterThanZero(duration.minutes)

\* !data[field]
FieldMissing(data, field) ==
    IF field = "date" THEN ~Truthy(data.date) ELSE ~TruthySub(data[field])

RECURSIVE RequiredErrors(_, _)
RequiredErrors(data, k) ==
    IF k > Len(REQUIRED_FIELDS) THEN <<>>
    ELSE (IF FieldMissing(data, REQUIRED_FIELDS[k])
          THEN <<"Field required: " \o REQUIRED_FIELDS[k]>>
          ELSE <<>>)
         \o RequiredErrors(data, k + 1)

validateRequiredFields(data) ==
    IF ~isObject(data)
    THEN [valid |-> FALSE, errors |-> <<"Invalid request data">>]
    ELSE [valid |-> RequiredErrors(data, 1) = <<>>,
          errors |-> RequiredErrors(data, 1)]

validateDurations(data) ==
    LET errors ==
            (IF ~hasValidDuration(data.totalSleep)
             THEN <<"Total sleep duration is required">> ELSE <<>>)
         \o (IF ~hasValidDuration(data.rem)
             THEN <<"REM sleep duration is required">> ELSE <<>>)
         \o (IF ~hasValidDuration(data.light)
             THEN <<"Light sleep duration is required">> ELSE <<>>)
         \o (IF ~hasValidDuration(data.deep)
             THEN <<"Deep sleep duration is required">> ELSE <<>>)
    IN  [valid |-> errors = <<>>, errors |-> errors]

\* the error is pushed when from is falsy; '00:00' alone pushes nothing
validateTimeSpan(data) ==
    LET errors ==
            (IF ~Truthy(Prop(data.sleepTime, "from"))
             THEN <<"Sleep start time is required">> ELSE <<>>)
         \o (IF ~Truthy(Prop(data.sleepTime, "to"))
             THEN <<"Sleep end time is required">> ELSE <<>>)
    IN  [valid |-> errors = <<>>, errors |-> errors]

\* (x || 0) of a leaf that is an integer or falsy, as the sanitized record's are
OrZero(v) == IF v.t = "num" THEN v.n ELSE 0

Abs(x) == IF x < 0 THEN -x ELSE x

\* a variant that warns from a difference of exactly 10% on
validatePhaseConsistencyFromTenPercent(data) ==
    LET totalMinutes == OrZero(Prop(data.totalSleep, "hours")) * 60
                        + OrZero(Prop(data.totalSleep, "minutes"))
        remMinutes   == OrZero(Prop(data.rem, "hours")) * 60
                        + OrZero(Prop(data.rem, "minutes"))
        lightMinutes == OrZero(Prop(data.light, "hours")) * 60
                        + OrZero(Prop(data.light, "minutes"))
        deepMinutes  == OrZero(Prop(data.deep, "hours")) * 60
                        + OrZero(Prop(data.deep, "minutes"))
        awakeMinutes == OrZero(Prop(data.awake, "minutes"))
        phasesTotal  == remMinutes + lightMinutes + deepMinutes + awakeMinutes
    IN  [valid |-> TRUE,
         errors |-> <<>>,
         warnings |->
            IF Abs(phasesTotal - totalMinutes) * 10 >= totalMinutes /\ totalMinutes > 0
            THEN <<"Sleep phases do not add up to total sleep time">>
            ELSE <<>>]

\* Math.abs(phasesTotal - totalMinutes) > totalMinutes * 0.1 && totalMinutes > 0;
\* both sides are taken times ten, so that the comparison is one of integers
validatePhaseConsistency(data) ==
    LET totalMinutes == OrZero(Prop(data.totalSleep, "hours")) * 60
                        + OrZero(Prop(data.totalSleep, "minutes"))
        remMinutes   == OrZero(Prop(data.rem, "hours")) * 60
                        + OrZero(Prop(data.rem, "minutes"))
        lightMinutes == OrZero(Prop(data.light, "hours")) * 60
                        + OrZero(Prop(data.light, "minutes"))
        deepMinutes  == OrZero(Prop(data.deep, "hours")) * 60
                        + OrZero(Prop(data.deep, "minutes"))
        awakeMinutes == OrZero(Prop(data.awake, "minutes"))
        phasesTotal  == remMinutes + lightMinutes + deepMinutes + awakeMinutes
    IN  [valid |-> TRUE,
         errors |-> <<>>,
         warnings |->
            IF Abs(phasesTotal - totalMinutes) * 10 > totalMinutes /\ totalMinutes > 0
            THEN <<"Sleep phases do not add up to total sleep time">>
            ELSE <<>>]

\* a variant that runs the value checks also when required fields are missing
validateSleepDataNoShortCircuit(data) ==
    LET requiredResult == validateRequiredFields(data)
        allErrors ==
            requiredResult.errors
            \o (IF isObject(data)
                THEN validateDurations(data).errors \o validateTimeSpan(data).errors
                ELSE <<>>)
        allWarnings ==
            IF requiredResult.valid THEN validatePhaseConsistency(data).warnings
            ELSE <<>>
    IN  [valid |-> allErrors = <<>>, errors |-> allErrors, warnings |-> allWarnings]

validateSleepData(data) ==
    LET requiredResult == validateRequiredFields(data)
        allErrors ==
            requiredResult.errors
            \o (IF requiredResult.valid
                THEN validateDurations(data).errors \o validateTimeSpan(data).errors
                ELSE <<>>)
        allWarnings ==
            IF requiredResult.valid THEN validatePhaseConsistency(data).warnings
            ELSE <<>>
    IN  [valid |-> allErrors = <<>>, errors |-> allErrors, warnings |-> allWarnings]

(***************************************************************************)
(* prompts/sleepPrompts.js                                                 *)
(***************************************************************************)
\* the characters of a string, written as one string
RECURSIVE Text(_)
Text(s) == IF s = <<>> THEN "" ELSE Head(s) \o Text(Tail(s))

\* `${leaf}` for the leaves a sanitized record holds
LeafText(v) == Text(JsToString(v))

\* the system prompt is a fixed text
SYSTEM_PROMPT == "Du bist ein Schlaf-Analyst ... max 50 Punkte"

\* a variant that leaves a zero part out of the text
formatDurationOmitZero(duration) ==
    IF ~TruthySub(duration) THEN ""
    ELSE (IF Truthy(Prop(duration, "hours"))
          THEN LeafText(Prop(duration, "hours")) \o "h " ELSE "")
         \o (IF Truthy(Prop(duration, "minutes"))
             THEN LeafText(Prop(duration, "minutes")) \o "min" ELSE "")

formatDuration(duration) ==
    IF ~TruthySub(duration) THEN "0h 0min"
    ELSE LET hours   == IF Truthy(Prop(duration, "hours"))
                        THEN Prop(duration, "hours") ELSE Num(0)
             minutes == IF Truthy(Prop(duration, "minutes"))
                        THEN Prop(duration, "minutes") ELSE Num(0)
         IN  LeafText(hours) \o "h " \o LeafText(minutes) \o "min"

buildUserPrompt(data) ==
    LET awakeMinutes == IF Truthy(Prop(data.awake, "minutes"))
                        THEN Prop(data.awake, "minutes") ELSE Num(0)
        from == IF Truthy(Prop(data.sleepTime, "from"))
                THEN Prop(data.sleepTime, "from") ELSE Str(Midnight)
        to   == IF Truthy(Prop(data.sleepTime, "to"))
                THEN Prop(data.sleepTime, "to") ELSE Str(Midnight)
        sleepSpan == LeafText(from) \o " - " \o LeafText(to)
    IN  "Analysiere folgende Schlaf-Daten vom " \o LeafText(data.date) \o ":\n\n"
        \o "- Gesamtschlaf: " \o formatDuration(data.totalSleep) \o "\n"
        \o "- Wach (Awake): " \o LeafText(awakeMinutes) \o "min\n"
        \o "- REM-Schlaf: " \o formatDuration(data.rem) \o "\n"
        \o "- Kern-Schlaf (Light): " \o formatDuration(data.light) \o "\n"
        \o "- Tief-Schlaf (Deep): " \o formatDuration(data.deep) \o "\n"
        \o "- Zeitspanne: " \o sleepSpan

getSleepAnalysisPrompts(data) ==
    [systemPrompt |-> SYSTEM_PROMPT, userPrompt |-> buildUserPrompt(data)]

(***************************************************************************)
(* services/openaiService.js.  What the HTTP client does with the one      *)
(* request is an outcome [kind, msg, status, body, content]:               *)
(*   kind "reject": the client rejects or throws an Error with message msg *)
(*   kind "response": a response with the given status; its body is        *)
(*     "textError"   response.text() rejects with message msg              *)
(*     "badjson"     response.json() rejects with message msg              *)
(*     "null"        the JSON value null                                   *)
(*     "nochoices"   an object without choices[0].message.content          *)
(*     "nullcontent" the content is null                                   *)
(*     "text"        the content is the string content (possibly empty)    *)
(*     "number"      the content is the number 42                          *)
(***************************************************************************)
HttpOutcome(kind, msg, status, body, content) ==
    [kind |-> kind, msg |-> msg, status |-> status, body |-> body, content |-> content]

\* response.ok
ResponseOk(status) == status \in 200..299

\* error.message || 'Network error'
MessageOr(msg) == IF msg = "" THEN "Network error" ELSE msg

GatewayFailure(error, statusCode) ==
    [threw |-> FALSE, success |-> FALSE, content |-> Undef,
     error |-> error, statusCode |-> statusCode]

GatewaySuccess(content) ==
    [threw |-> FALSE, success |-> TRUE, content |-> content,
     error |-> "", statusCode |-> 200]

\* an exception that leaves sendChatCompletion
GatewayThrow(msg) ==
    [threw |-> TRUE, success |-> FALSE, content |-> Undef,
     error |-> msg, statusCode |-> 0]

NullChoicesMessage == "Cannot read properties of null (reading 'choices')"

\* a variant without the try/catch around the call
sendChatCompletionNoCatch(outcome) ==
    IF outcome.kind = "reject" THEN GatewayThrow(outcome.msg)
    ELSE IF ~ResponseOk(outcome.status)
    THEN IF outcome.body = "textError" THEN GatewayThrow(outcome.msg)
         ELSE GatewayFailure("OpenAI API request failed", outcome.status)
    ELSE CASE outcome.body = "badjson" -> GatewayThrow(outcome.msg)
           [] outcome.body = "null"    -> GatewayThrow(NullChoicesMessage)
           [] outcome.body = "number"  -> GatewaySuccess(Num(42))
           [] outcome.body = "text" /\ outcome.content # <<>>
                                       -> GatewaySuccess(Str(outcome.content))
           [] OTHER -> GatewayFailure("Empty response from OpenAI", 200)

\* the result sendChatCompletion resolves to, given what the HTTP client does
sendChatCompletion(outcome) ==
    IF outcome.kind = "reject"
    THEN GatewayFailure(MessageOr(outcome.msg), 500)
    ELSE IF ~ResponseOk(outcome.status)
    THEN IF outcome.body = "textError"
         THEN GatewayFailure(MessageOr(outcome.msg), 500)
         ELSE GatewayFailure("OpenAI API request failed", outcome.status)
    ELSE CASE outcome.body = "badjson" -> GatewayFailure(MessageOr(outcome.msg), 500)
           [] outcome.body = "null"    -> GatewayFailure(NullChoicesMessage, 500)
           [] outcome.body = "number"  -> GatewaySuccess(Num(42))
           [] outcome.body = "text" /\ outcome.content # <<>>
                                       -> GatewaySuccess(Str(outcome.content))
           [] OTHER -> GatewayFailure("Empty response from OpenAI", 200)

(***************************************************************************)
(* controllers/analyzeController.js: parseAnalysisText                     *)
(***************************************************************************)
\* U+27A1 U+FE0F, the arrow the score line starts with
ScoreArrow == <<"<27A1>", "<FE0F>">>
SeeAnalysis == <<"S", "i", "e", "h", "e", " ", "A", "n", "a", "l", "y", "s", "e">>

\* the index after the literal w matched exactly at index i of s; 0 when it
\* does not match or i is 0
LitEnd(s, i, w) ==
    IF /\ i # 0
       /\ i + Len(w) - 1 <= Len(s)
       /\ \A j \in 1..Len(w) : s[i + j - 1] = w[j]
    THEN i + Len(w)
    ELSE 0

\* the index after the blanks at index i of s; 0 when i is 0
BlanksEnd0(s, i) == IF i = 0 THEN 0 ELSE BlanksEnd(s, i)

\* the index after the longest run, from index i of s, of characters in set
\* (inSet) or not in set (~inSet)
RECURSIVE RunEnd(_, _, _, _)
RunEnd(s, i, set, inSet) ==
    IF i <= Len(s) /\ ((s[i] \in set) = inSet)
    THEN RunEnd(s, i + 1, set, inSet)
    ELSE i

\* the same, for a run of at least one character; 0 when there is none or i is 0
RunEnd1(s, i, set, inSet) ==
    IF i = 0 \/ RunEnd(s, i, set, inSet) = i THEN 0 ELSE RunEnd(s, i, set, inSet)

\* the match of the score pattern starting at index i of s:
\* [ok, percent, label]
ScoreMatchAt(s, i) ==
    LET a1 == BlanksEnd0(s, LitEnd(s, i, ScoreArrow))
        a2 == BlanksEnd0(s, LitEnd(s, a1, <<"G", "e", "s", "a", "m", "t", ":">>))
        a3 == BlanksEnd0(s, RunEnd1(s, a2, Digits, TRUE))
        a4 == BlanksEnd0(s, LitEnd(s, a3, <<"/">>))
        a5 == BlanksEnd0(s, LitEnd(s, a4, <<"5", "0">>))
        a6 == BlanksEnd0(s, LitEnd(s, a5, <<"=">>))
        p2 == RunEnd1(s, a6, Digits \cup {"."}, TRUE)
        a7 == BlanksEnd0(s, p2)
        a8 == BlanksEnd0(s, LitEnd(s, a7, <<"%">>))
        a9 == LitEnd(s, a8, <<"(">>)
        l2 == RunEnd1(s, a9, {")"}, FALSE)
    IN  IF LitEnd(s, l2, <<")">>) = 0
        THEN [ok |-> FALSE, percent |-> <<>>, label |-> <<>>]
        ELSE [ok |-> TRUE,
              percent |-> SubSeq(s, a6, p2 - 1),
              label |-> SubSeq(s, a9, l2 - 1)]

\* a variant that looks for the pattern at index i only
ScoreMatchAnchored(s, i) ==
    IF i > Len(s) THEN [ok |-> FALSE, percent |-> <<>>, label |-> <<>>]
    ELSE ScoreMatchAt(s, i)

\* the indexes from i on at which the pattern matches
MatchStarts(s, i) == { k \in i..Len(s) : ScoreMatchAt(s, k).ok }

\* analysisText.match(pattern): the leftmost match, from index i on
ScoreMatchFrom(s, i) ==
    IF MatchStarts(s, i) = {} THEN [ok |-> FALSE, percent |-> <<>>, label |-> <<>>]
    ELSE ScoreMatchAt(s, CHOOSE k \in MatchStarts(s, i) :
                            \A j \in MatchStarts(s, i) : k <= j)

parseAnalysisText(analysisText) ==
    LET scoreMatch == ScoreMatchFrom(analysisText, 1)
    IN  [analysis |-> analysisText,
         score |-> IF scoreMatch.ok
                   THEN scoreMatch.percent \o <<"%", " ", "(">> \o scoreMatch.label \o <<")">>
                   ELSE SeeAnalysis,
         trend |-> SeeAnalysis,
         recommendation |-> SeeAnalysis]

(***************************************************************************)
(* middleware/errorHandler.js and the bodies of the responses.  A response *)
(* is [status, body]; a body is one record for all its shapes:             *)
(*   kind "error"    {success:false, error:{code, message[, details]}}     *)
(*   kind "analysis" {success:true, message, timestamp, score, analysis,   *)
(*                    trend, recommendation}                               *)
(*   kind "health"   the static status payload of GET /                    *)
(*   kind "text"     a plain text (the limiter's message)                  *)
(*   kind "empty"    no body                                               *)
(* details = "" stands for a body without the details property.            *)
(***************************************************************************)
Body(kind, success, code, message, details, parsed, timestamp) ==
    [kind |-> kind, success |-> success, code |-> code, message |-> message,
     details |-> details, score |-> parsed.score, analysis |-> parsed.analysis,
     trend |-> parsed.trend, recommendation |-> parsed.recommendation,
     timestamp |-> timestamp]

NothingParsed ==
    [analysis |-> <<>>, score |-> <<>>, trend |-> <<>>, recommendation |-> <<>>]

EmptyBody == Body("empty", FALSE, 0, "", "", NothingParsed, "")

\* new Date().toISOString(); the clock is not part of the handler's state
Timestamp == "<ISO-8601 now>"

createErrorResponse(statusCode, message, details, env) ==
    Body("error", FALSE, statusCode, message,
         IF details # "" /\ env.nodeEnv = "development" THEN details ELSE "",
         NothingParsed, "")

Response(status, body) == [status |-> status, body |-> body]

NoResponse == Response(0, EmptyBody)

(***************************************************************************)
(* controllers/analyzeController.js: analyzeHandler.  The part that runs   *)
(* up to the await of the gateway call yields                              *)
(*   [pending, trace, validation, prompts, resp]                           *)
(* where trace lists the functions called, in order, pending says that the *)
(* handler is suspended on sendChatCompletion and resp is the response     *)
(* sent otherwise.                                                         *)
(***************************************************************************)
RECURSIVE Join(_, _)
\* errors.join(sep)
Join(errors, sep) ==
    IF errors = <<>> THEN ""
    ELSE IF Len(errors) = 1 THEN errors[1]
    ELSE errors[1] \o sep \o Join(Tail(errors), sep)

NoValidation == [valid |-> FALSE, errors |-> <<>>, warnings |-> <<>>]
NoPrompts == [systemPrompt |-> "", userPrompt |-> ""]

Responded(trace, validation, status, body) ==
    [pending |-> FALSE, trace |-> trace, validation |-> validation,
     prompts |-> NoPrompts, resp |-> Response(status, body)]

Suspended(trace, validation, prompts) ==
    [pending |-> TRUE, trace |-> trace, validation |-> validation,
     prompts |-> prompts, resp |-> NoResponse]

\* a variant that does not stop on a failed validation
analyzeHandlerAfterValidationNoStop(sanitizedData, validation, env) ==
    Suspended(<<"sanitizeSleepData", "validateSleepData",
                "getSleepAnalysisPrompts", "createOpenAIService",
                "sendChatCompletion">>,
              validation, getSleepAnalysisPrompts(sanitizedData))

\* from the validation result on: reject with 400, or build the prompts and
\* call the gateway
analyzeHandlerAfterValidation(sanitizedData, validation, env) ==
    IF ~validation.valid
    THEN Responded(<<"sanitizeSleepData", "validateSleepData">>, validation, 400,
                   createErrorResponse(400, Join(validation.errors, ", "),
                                       "INVALID_INPUT", env))
    ELSE Suspended(<<"sanitizeSleepData", "validateSleepData",
                     "getSleepAnalysisPrompts", "createOpenAIService",
                     "sendChatCompletion">>,
                   validation, getSleepAnalysisPrompts(sanitizedData))

\* const validation = validateSleepData(sanitizedData)
analyzeHandlerAfterSanitizing(sanitizedData, env) ==
    analyzeHandlerAfterValidation(sanitizedData, validateSleepData(sanitizedData), env)

\* a variant that builds the prompts from the body as it came
analyzeHandlerPipelineRawPrompt(req, env) ==
    analyzeHandlerAfterValidation(req.body, validateSleepData(sanitizeSleepData(req.body)),
                                  env)

\* const sanitizedData = sanitizeSleepData(req.body)
analyzeHandlerPipeline(req, env) ==
    IF sanitizeSleepData(req.body) = Thrown
    THEN Responded(<<"sanitizeSleepData">>, NoValidation, 500,
                   createErrorResponse(500, "Interner Fehler bei der Analyse",
                                       "ANALYSIS_ERROR", env))
    ELSE analyzeHandlerAfterSanitizing(sanitizeSleepData(req.body), env)

\* the late credential check of the variant below
LateKeyCheck(p, env) ==
    IF p.pending /\ ~env.apiKey
    THEN Responded(<<"sanitizeSleepData", "validateSleepData",
                     "getSleepAnalysisPrompts">>, p.validation, 500,
                   createErrorResponse(500, "API configuration missing",
                                       "MISSING_API_KEY", env))
    ELSE p

\* a variant that looks for the credential only when it is about to call out
analyzeHandlerTryLateKeyCheck(req, env) ==
    LateKeyCheck(analyzeHandlerPipeline(req, env), env)

\* the try block: the credential check, then the pipeline
analyzeHandlerTry(req, env) ==
    IF ~env.apiKey
    THEN Responded(<<>>, NoValidation, 500,
                   createErrorResponse(500, "API configuration missing",
                                       "MISSING_API_KEY", env))
    ELSE analyzeHandlerPipeline(req, env)

\* a variant that looks for the credential before it looks at the method
analyzeHandlerKeyFirst(req, env) ==
    IF ~env.apiKey THEN analyzeHandlerTry(req, env)
    ELSE IF req.method = "OPTIONS" THEN Responded(<<>>, NoValidation, 200, EmptyBody)
    ELSE IF req.method # "POST"
    THEN Responded(<<>>, NoValidation, 405,
                   createErrorResponse(405, "Method not allowed", "", env))
    ELSE analyzeHandlerTry(req, env)

analyzeHandler(req, env) ==
    IF req.method = "OPTIONS" THEN Responded(<<>>, NoValidation, 200, EmptyBody)
    ELSE IF req.method # "POST"
    THEN Responded(<<>>, NoValidation, 405,
                   createErrorResponse(405, "Method not allowed", "", env))
    ELSE analyzeHandlerTry(req, env)

\* result.statusCode || 500
StatusOr500(statusCode) == IF statusCode = 0 THEN 500 ELSE statusCode

InternalError(env) ==
    Response(500, createErrorResponse(500, "Interner Fehler bei der Analyse",
                                      "ANALYSIS_ERROR", env))

\* the handler from the point where the gateway call settles with result:
\* [trace, resp], trace being the calls made from there on
analyzeHandlerResume(result, env) ==
    IF result.threw THEN [trace |-> <<>>, resp |-> InternalError(env)]
    ELSE IF ~result.success
    THEN [trace |-> <<>>,
          resp |-> Response(StatusOr500(result.statusCode),
                            createErrorResponse(StatusOr500(result.statusCode),
                                                result.error, "OPENAI_ERROR", env))]
    ELSE IF result.content.t # "str"
    \* analysisText.match is not a function: caught by the handler's catch
    THEN [trace |-> <<"parseAnalysisText">>, resp |-> InternalError(env)]
    ELSE [trace |-> <<"parseAnalysisText">>,
          resp |-> Response(200,
                     Body("analysis", TRUE, 0, "Analyse erfolgreich erstellt", "",
                          parseAnalysisText(result.content.s), Timestamp))]

(***************************************************************************)
(* Inputs of the sanitizer runs                                            *)
(***************************************************************************)
\* a number far above every limit
Huge == 1000000

NumLeaves ==
    { Num(-1), Num(0), Num(5), Num(12), Num(13), Num(24), Num(25), Num(30),
      Num(59), Num(60), Num(480), Num(481), Num(Huge), Num(-Huge),
      Dec(75), Dec(-5), Exp(5), Exp(-3), NaN, Inf(1), Inf(-1), Null, Undef,
      True, Obj, Arr1(7),
      Str(<<>>), Str(<<"a", "b", "c">>), Str(<<"1", "2", "a", "b">>),
      Str(<<" ", "7">>), Str(<<"-", "3">>), Str(<<"+", "9">>),
      Str(<<"9", "9">>), Str(<<"-">>), Str(<<"4", ".", "9">>) }

TimeLeaves ==
    { Str(<<"2", "2", ":", "0", "0">>), Str(<<"0", "5", ":", "3", "0">>),
      Str(<<"5", ":", "3", "0">>), Str(<<"2", "3", ":", "5", "9">>),
      Str(<<"2", "4", ":", "0", "0">>), Str(<<"1", "9", ":", "6", "0">>),
      Str(<<"0", "0", ":", "0", "0">>), Str(<<"2", "2", ":", "0", "0", "\n">>),
      Str(<<" ", "7", ":", "1", "5">>), Str(<<"2", "2", "0", "0">>),
      Str(<<>>), Str(<<"n", "o", "w">>), Num(2200), Null, Undef, Obj }

DateLeaves ==
    { Str(<<"2", "0", "2", "4", "-", "1", "2", "-", "0", "2">>),
      Str(<<"2", "0", "2", "4", "-", "0", "2", "-", "2", "9">>),
      Str(<<"2", "0", "2", "4", "-", "0", "2", "-", "3", "0">>),
      Str(<<"2", "0", "2", "3", "-", "0", "2", "-", "2", "9">>),
      Str(<<"2", "0", "2", "4", "-", "1", "3", "-", "0", "1">>),
      Str(<<"2", "0", "2", "4", "-", "0", "0", "-", "1", "0">>),
      Str(<<"2", "0", "2", "4", "-", "0", "4", "-", "3", "2">>),
      Str(<<"2", "0", "2", "4", "-", "0", "4", "-", "0", "0">>),
      Str(<<"2", "0", "2", "4", "-", "1", "-", "2">>),
      Str(<<"0", "2", ".", "1", "2", ".", "2", "0", "2", "4">>),
      Str(<<"2", "0", "2", "4", "-", "1", "2", "-", "0", "2", "T">>),
      Str(Today), Str(<<>>), Num(20241202), Null, Undef, Obj }

SubKinds == {"obj", "arr", "null", "undef", "truthy", "falsy"}

\* a well-formed request body, of the shape of the README's request example
ValidBody ==
    [k |-> "obj",
     date |-> Str(<<"2", "0", "2", "4", "-", "1", "2", "-", "0", "2">>),
     totalSleep |-> Duration(Num(7), Num(30)),
     awake |-> OnlyMinutes(Num(5)),
     rem |-> Duration(Num(1), Num(30)),
     light |-> Duration(Num(3), Num(0)),
     deep |-> Duration(Num(2), Num(30)),
     sleepTime |-> TimeSpan(Str(<<"2", "2", ":", "0", "0">>),
                            Str(<<"0", "5", ":", "3", "0">>))]

SanInputs ==
    { NonValue(k) : k \in SubKinds }
    \cup { [ValidBody EXCEPT ![f] = Duration(h, m)] :
              f \in {"totalSleep", "rem", "light", "deep"}, h \in NumLeaves, m \in NumLeaves }
    \cup { [ValidBody EXCEPT !.awake = OnlyMinutes(m)] : m \in NumLeaves }
    \cup { [ValidBody EXCEPT ![f] = NoSub(k)] : f \in SubFields, k \in SubKinds }
    \cup { [ValidBody EXCEPT !.sleepTime = TimeSpan(a, b)] :
              a \in TimeLeaves, b \in TimeLeaves }
    \cup { [ValidBody EXCEPT !.date = d] : d \in DateLeaves }

(***************************************************************************)
(* Sanitizer runs: sanitizeSleepData applied to an input, then to its own  *)
(* result.                                                                 *)
(***************************************************************************)
vars == <<sanIn, sanOut, sanPc, strIn, strOut, strPc, processEnv, slots, rl, now, served,
          fnIn, fnOut, fnPc>>

(***************************************************************************)
(* Requests.  A slot holds one request from its arrival to its response:   *)
(*   pc         "idle" | "awaiting" (suspended on the gateway call) | "done"*)
(*   req        [method, path, key, origin, body]                          *)
(*   trace      the functions the handler has called for it, in order      *)
(*   validation what validateSleepData returned                            *)
(*   prompts    what was handed to sendChatCompletion                      *)
(*   outcome    what the HTTP client did, gw what sendChatCompletion       *)
(*              resolved to                                                *)
(*   resp       the response sent                                          *)
(***************************************************************************)
Slots == {"s1", "s2"}

Request(method, path, key, origin, body) ==
    [method |-> method, path |-> path, key |-> key, origin |-> origin, body |-> body]

NoRequest == Request("", "", "", "", JsNull)
NoOutcome == HttpOutcome("none", "", 0, "", <<>>)
NoResult  == GatewayFailure("", 0)

\* what the limiter's store returned for a request: the hits of its key, this
\* one included, and the start of the key's window
NoHit == [totalHits |-> 0, windowStart |-> 0]

IdleSlot ==
    [pc |-> "idle", req |-> NoRequest, trace |-> <<>>, validation |-> NoValidation,
     prompts |-> NoPrompts, outcome |-> NoOutcome, gw |-> NoResult,
     resp |-> NoResponse, allowOrigin |-> "", hit |-> NoHit]

Envs == [apiKey : BOOLEAN, nodeEnv : {"development", "production"}]

SanIdle == sanIn = JsNull /\ sanOut = <<>> /\ sanPc = "idle"
StrIdle == strIn = Undef /\ strOut = <<>> /\ strPc = "idle"
Clients == {"ipA", "ipB"}

FnIdle == fnIn = JsNull /\ fnOut = JsNull /\ fnPc = "idle"

ServerIdle == rl = [k \in Clients |-> NoHit] /\ now = 0
              /\ served = [k \in Clients |-> NoHit]
              /\ FnIdle
HandlerIdle == processEnv = [apiKey |-> TRUE, nodeEnv |-> "production"]
               /\ slots = [s \in Slots |-> IdleSlot]
               /\ ServerIdle

\* bodies with a leaf that cannot be converted to a string
ThrowingInputs ==
    { [ValidBody EXCEPT !.totalSleep = Duration(NoString, Num(30))],
      [ValidBody EXCEPT !.deep = Duration(Num(1), NoString)],
      [ValidBody EXCEPT !.awake = OnlyMinutes(NoString)] }

SanInit ==
    /\ sanIn \in SanInputs \cup ThrowingInputs /\ sanOut = <<>> /\ sanPc = "start"
    /\ StrIdle /\ HandlerIdle

SanCall ==
    /\ sanPc = "start"
    /\ sanOut' = <<sanitizeSleepData(sanIn)>>
    /\ sanPc' = "once"
    /\ UNCHANGED <<sanIn, strIn, strOut, strPc, processEnv, slots, rl, now, served, fnIn, fnOut, fnPc>>

SanAgain ==
    /\ sanPc = "once"
    /\ sanOut[1] # Thrown
    /\ sanOut' = Append(sanOut, sanitizeSleepData(sanOut[1]))
    /\ sanPc' = "twice"
    /\ UNCHANGED <<sanIn, strIn, strOut, strPc, processEnv, slots, rl, now, served, fnIn, fnOut, fnPc>>

SpecSan == SanInit /\ [][SanCall \/ SanAgain]_vars

(***************************************************************************)
(* String runs: sanitizeString (default maximum length) applied to an      *)
(* input, then to its own result.  The inputs are all concatenations of    *)
(* at most MaxFrags of the fragments below, and some values that are not   *)
(* strings.                                                                *)
(***************************************************************************)
MaxFrags == 3

StrFrags ==
    { W.over, W.ride, W.override, W.ignore, W.all, <<" ">>, <<"<00>">>,
      <<"<0B>">>, <<"S", "Y", "S", "T", "E", "M">>, W.prompt, <<"x">>,
      W.new \o <<" ">> \o W.instruction }

RECURSIVE FragStrings(_)
FragStrings(n) ==
    IF n = 0 THEN { <<>> }
    ELSE FragStrings(n - 1)
         \cup { a \o b : a \in FragStrings(n - 1), b \in StrFrags }

StrInputs == { Str(s) : s \in FragStrings(MaxFrags) } \cup { Num(5), Null, Undef, Obj }

StrInit ==
    /\ strIn \in StrInputs /\ strOut = <<>> /\ strPc = "start"
    /\ SanIdle /\ HandlerIdle

StrCall ==
    /\ strPc = "start"
    /\ strOut' = <<sanitizeString(strIn, maxStringLength)>>
    /\ strPc' = "once"
    /\ UNCHANGED <<strIn, sanIn, sanOut, sanPc, processEnv, slots, rl, now, served, fnIn, fnOut, fnPc>>

StrAgain ==
    /\ strPc = "once"
    /\ strOut' = Append(strOut, sanitizeString(Str(strOut[1]), maxStringLength))
    /\ strPc' = "twice"
    /\ UNCHANGED <<strIn, sanIn, sanOut, sanPc, processEnv, slots, rl, now, served, fnIn, fnOut, fnPc>>

SpecStr == StrInit /\ [][StrCall \/ StrAgain]_vars

(***************************************************************************)
(* The handler invoked directly (the serverless deployment): any method    *)
(* reaches analyzeHandler; requests interleave at the gateway call.        *)
(***************************************************************************)
AnalyzePath == "/api/analyze"
FrontendOrigin == "https://minicube87.github.io"

\* End-to-end scenario 2: no total sleep
ZeroTotalBody == [ValidBody EXCEPT !.totalSleep = Duration(Num(0), Num(0))]

HandlerBodies ==
    { ValidBody,
      ZeroTotalBody,
      [ValidBody EXCEPT !.sleepTime = NoSub("undef")],
      [ValidBody EXCEPT !.rem = NoSub("undef"), !.deep = Duration(Str(<<"x">>), Null)],
      [ValidBody EXCEPT !.totalSleep = Duration(Num(Huge), Num(-1)),
                        !.date = Str(<<"n", "o", "w">>)],
      EmptyObject,
      NonValue("arr"),
      [ValidBody EXCEPT !.rem = Duration(NoString, Num(10))],
      JsNull }

HandlerRequests ==
    { Request("POST", AnalyzePath, "ipA", FrontendOrigin, b) : b \in HandlerBodies }
    \cup { Request(m, AnalyzePath, "ipA", FrontendOrigin, EmptyObject) :
              m \in {"OPTIONS", "GET", "DELETE"} }
    \cup { Request("PUT", AnalyzePath, "ipA", FrontendOrigin, ValidBody) }

ReplyWithScore ==
    <<"A", "n", "a", "l", "y", "s", "e", "\n">> \o ScoreArrow \o
    <<" ", "G", "e", "s", "a", "m", "t", ":", " ", "4", "7", " ", "/", " ", "5", "0", " ", "=", " ", "9", "4", " ", "%", " ", "(", "A", "+", " ", "S", "c", "h", "l", "a", "f", ")", "\n", "E", "n", "d", "e">>
ReplyWithoutScore == <<"G", "e", "s", "a", "m", "t", ":", " ", "4", "7", " ", "v", "o", "n", " ", "5", "0", " ", "(", "g", "u", "t", ")">>


Outcomes ==
    { HttpOutcome("reject", m, 0, "", <<>>) : m \in {"fetch failed", "socket hang up", ""} }
    \cup { HttpOutcome("response", "", st, "text", b) :
              st \in {401, 429, 500, 503},
              b \in { <<"q", "u", "o", "t", "a">>, <<"k", "e", "y">> } }
    \cup { HttpOutcome("response", m, 503, "textError", <<>>) : m \in {"fetch failed", "socket hang up"} }
    \cup { HttpOutcome("response", m, 200, "badjson", <<>>) : m \in {"fetch failed", "socket hang up"} }
    \cup { HttpOutcome("response", "", 200, b, <<>>) :
              b \in {"null", "nochoices", "nullcontent", "number", "text"} }
    \cup { HttpOutcome("response", "", st, "text", c) :
              st \in {200, 201}, c \in {ReplyWithScore, ReplyWithoutScore} }

Init ==
    /\ processEnv \in Envs
    /\ slots = [s \in Slots |-> IdleSlot]
    /\ SanIdle /\ StrIdle /\ ServerIdle

\* the slot of a request for which the handler has run up to h
SlotStarted(req, h) ==
    [IdleSlot EXCEPT !.pc = IF h.pending THEN "awaiting" ELSE "done",
                     !.req = req,
                     !.trace = h.trace,
                     !.validation = h.validation,
                     !.prompts = h.prompts,
                     !.resp = h.resp]

\* a variant that calls the gateway a second time after a first failure
SlotResumedWithRetry(slot, outcome, result, r) ==
    IF ~result.success /\ slot.outcome = NoOutcome
    THEN [slot EXCEPT !.outcome = outcome,
                      !.gw = result,
                      !.trace = @ \o <<"sendChatCompletion">>]
    ELSE [slot EXCEPT !.pc = "done",
                      !.outcome = outcome,
                      !.gw = result,
                      !.trace = @ \o r.trace,
                      !.resp = r.resp]

\* the slot after the gateway result and the handler's continuation r
SlotResumed(slot, outcome, result, r) ==
    [slot EXCEPT !.pc = "done",
                 !.outcome = outcome,
                 !.gw = result,
                 !.trace = @ \o r.trace,
                 !.resp = r.resp]

SlotSettled(slot, outcome, result, env) ==
    SlotResumed(slot, outcome, result, analyzeHandlerResume(result, env))

\* a variant in which a handler waiting for the gateway holds up new requests
InvokeWhenNoneWaits(s, req) ==
    /\ slots[s].pc = "idle"
    /\ \A t \in Slots : slots[t].pc # "awaiting"
    /\ slots' = [slots EXCEPT ![s] = SlotStarted(req, analyzeHandler(req, processEnv))]
    /\ UNCHANGED <<processEnv, sanIn, sanOut, sanPc, strIn, strOut, strPc, rl, now, served, fnIn, fnOut, fnPc>>

\* the handler runs for a new request up to its response or its gateway call
Invoke(s, req) ==
    /\ slots[s].pc = "idle"
    /\ slots' = [slots EXCEPT ![s] = SlotStarted(req, analyzeHandler(req, processEnv))]
    /\ UNCHANGED <<processEnv, sanIn, sanOut, sanPc, strIn, strOut, strPc, rl, now, served, fnIn, fnOut, fnPc>>

\* the HTTP client settles: sendChatCompletion resolves and the handler
\* resumes and responds
Settle(s, outcome) ==
    /\ slots[s].pc = "awaiting"
    /\ slots' = [slots EXCEPT ![s] =
                    SlotSettled(@, outcome, sendChatCompletion(outcome), processEnv)]
    /\ UNCHANGED <<processEnv, sanIn, sanOut, sanPc, strIn, strOut, strPc, rl, now, served, fnIn, fnOut, fnPc>>

Next ==
    \/ \E s \in Slots, req \in HandlerRequests : Invoke(s, req)
    \/ \E s \in Slots, outcome \in Outcomes : Settle(s, outcome)

Spec == Init /\ [][Next]_vars


(***************************************************************************)
(* server.js: the Express application.  A request runs through             *)
(* express.json, the CORS middleware and the route table; POST             *)
(* /api/analyze runs through the limiter before analyzeHandler.  The       *)
(* limiter awaits its store, so a request is in the limiter ("limiter")    *)
(* between the increment of its key's counter and the comparison with the  *)
(* maximum.                                                                *)
(***************************************************************************)
windowMs == 900000
maxRequests == 30
RateLimitMessage == "Too many requests from this IP. Please wait before trying again."

allowedOrigins == { "https://minicube87.github.io", "http://localhost:8000",
                    "http://127.0.0.1:8000" }

\* a variant whose maximum is one more than the configured one
RateLimitSettingsOneMore ==
    [windowMs |-> windowMs, max |-> maxRequests + 1, message |-> RateLimitMessage]

\* a variant whose window is twice the configured one
RateLimitSettingsLongWindow ==
    [windowMs |-> 2 * windowMs, max |-> maxRequests, message |-> RateLimitMessage]

\* the settings createRateLimiter hands to express-rate-limit
RateLimitSettings ==
    [windowMs |-> windowMs, max |-> maxRequests, message |-> RateLimitMessage]

\* skip: (req) => req.path === '/'
Skip(req) == req.path = "/"

\* a variant whose analysis route takes every method
ServerRouteAnyMethod(req) ==
    IF req.method = "GET" /\ req.path = "/" THEN "health"
    ELSE IF req.path = AnalyzePath THEN "analyze"
    ELSE "notFound"

\* the route of the table that takes the request
ServerRoute(req) ==
    IF req.method = "GET" /\ req.path = "/" THEN "health"
    ELSE IF req.method = "POST" /\ req.path = AnalyzePath THEN "analyze"
    ELSE "notFound"

\* a variant with the limiter mounted for every route, without the skip
RateLimitedEveryRoute(req) == req.path # ""

\* the limiter counts the request: it is mounted on its route and does not
\* skip it
RateLimited(req) == ServerRoute(req) = "analyze" /\ ~Skip(req)

\* a variant that echoes whatever origin the request names
AllowOriginHeaderAnyOrigin(req) == req.origin

\* the Access-Control-Allow-Origin header the CORS middleware sets; "" for none
AllowOriginHeader(req) == IF req.origin \in allowedOrigins THEN req.origin ELSE ""

HealthBody ==
    Body("health", FALSE, 0, "healthy", "", NothingParsed, "")

notFoundHandler(req, env) ==
    Responded(<<>>, NoValidation, 404,
              createErrorResponse(404,
                  "Route " \o req.method \o " " \o req.path \o " not found", "", env))

\* the handler of the request's route, run up to its response or its gateway call
RouteHandler(req, env) ==
    CASE ServerRoute(req) = "health"  -> Responded(<<>>, NoValidation, 200, HealthBody)
      [] ServerRoute(req) = "analyze" -> analyzeHandler(req, env)
      [] OTHER                        -> notFoundHandler(req, env)

\* the store's increment for a key at time t: a window that has elapsed (or
\* never began) starts anew with this hit
Increment(entry, t, settings) ==
    IF entry.totalHits = 0 \/ t - entry.windowStart >= settings.windowMs
    THEN [totalHits |-> 1, windowStart |-> t]
    ELSE [entry EXCEPT !.totalHits = @ + 1]

\* the limiter's comparison after the increment
OverLimit(hit, settings) == hit.totalHits > settings.max

TooManyRequests ==
    Response(429, Body("text", FALSE, 0, RateLimitSettings.message, "", NothingParsed, ""))

\* the count of the requests passed on, after one more of the window of hit
ServedOneMore(entry, hit) ==
    IF entry.windowStart = hit.windowStart /\ entry.totalHits > 0
    THEN [entry EXCEPT !.totalHits = @ + 1]
    ELSE IF hit.windowStart >= entry.windowStart
    THEN [totalHits |-> 1, windowStart |-> hit.windowStart]
    ELSE entry

\* the hits of one key beyond the maximum that are followed
MaxOver == 2
\* the hits of the second client that are followed
MaxOtherHits == 1

\* req.headers.origin of a request without an Origin header
NoOrigin == ""

ServerRequests ==
    { Request("POST", AnalyzePath, "ipA", FrontendOrigin, ValidBody),
      Request("POST", AnalyzePath, "ipA", FrontendOrigin, JsNull),
      Request("POST", AnalyzePath, "ipB", "https://evil.example", ValidBody),
      Request("GET", "/", "ipA", FrontendOrigin, EmptyObject),
      Request("GET", "/", "ipB", "http://localhost:8000", EmptyObject),
      Request("GET", AnalyzePath, "ipA", NoOrigin, EmptyObject),
      Request("POST", "/", "ipA", FrontendOrigin, ValidBody),
      Request("OPTIONS", AnalyzePath, "ipA", FrontendOrigin, EmptyObject) }

ServerOutcomes ==
    { HttpOutcome("response", "", 200, "text", ReplyWithScore),
      HttpOutcome("response", "", 429, "text", <<"q", "u", "o", "t", "a">>),
      HttpOutcome("reject", "fetch failed", 0, "", <<>>) }

ServerInit ==
    /\ processEnv \in { e \in Envs : e.nodeEnv = "production" }
    /\ slots = [s \in Slots |-> IdleSlot]
    /\ SanIdle /\ StrIdle /\ ServerIdle

\* the slot of a request the CORS middleware has answered or passed on
WithCors(slot, req) == [slot EXCEPT !.allowOrigin = AllowOriginHeader(req)]

\* the slot of a request waiting in the limiter with its hit
SlotInLimiter(req, hit) ==
    [IdleSlot EXCEPT !.pc = "limiter", !.req = req, !.hit = hit]

\* the slot of a request the limiter has rejected
SlotRejected(req) ==
    [IdleSlot EXCEPT !.pc = "done", !.req = req, !.resp = TooManyRequests]

\* a request arrives: body parser, CORS middleware (which answers a
\* preflight), then its route; a route behind the limiter first counts the hit
Receive(s, req) ==
    /\ slots[s].pc = "idle"
    /\ IF req.method = "OPTIONS"
       THEN /\ slots' = [slots EXCEPT ![s] =
                           WithCors(SlotStarted(req, Responded(<<>>, NoValidation, 204,
                                                               EmptyBody)), req)]
            /\ UNCHANGED rl
       ELSE IF RateLimited(req)
       THEN /\ rl[req.key].totalHits < (IF req.key = "ipA" THEN maxRequests + MaxOver ELSE MaxOtherHits)
            /\ rl' = [rl EXCEPT ![req.key] = Increment(@, now, RateLimitSettings)]
            /\ slots' = [slots EXCEPT ![s] = WithCors(SlotInLimiter(req, rl'[req.key]), req)]
       ELSE /\ slots' = [slots EXCEPT ![s] =
                           WithCors(SlotStarted(req, RouteHandler(req, processEnv)), req)]
            /\ UNCHANGED rl
    /\ UNCHANGED <<processEnv, now, served, sanIn, sanOut, sanPc, strIn, strOut, strPc, fnIn, fnOut, fnPc>>

\* the limiter resumes with the hit it got: 429, or on to the route's handler
Admit(s) ==
    /\ slots[s].pc = "limiter"
    /\ IF OverLimit(slots[s].hit, RateLimitSettings)
       THEN /\ slots' = [slots EXCEPT ![s] = WithCors(SlotRejected(@.req), @.req)]
            /\ UNCHANGED served
       ELSE /\ slots' = [slots EXCEPT ![s] =
                           WithCors(SlotStarted(@.req, RouteHandler(@.req, processEnv)),
                                    @.req)]
            /\ served' = [served EXCEPT ![slots[s].req.key] =
                             ServedOneMore(@, slots[s].hit)]
    /\ UNCHANGED <<processEnv, now, rl, sanIn, sanOut, sanPc, strIn, strOut, strPc, fnIn, fnOut, fnPc>>

\* the response has gone out; the slot is free for the next request
Release(s) ==
    /\ slots[s].pc = "done"
    /\ slots' = [slots EXCEPT ![s] = IdleSlot]
    /\ UNCHANGED <<processEnv, now, rl, served, sanIn, sanOut, sanPc, strIn, strOut, strPc, fnIn, fnOut, fnPc>>

ServerNext ==
    \/ \E s \in Slots, req \in ServerRequests : Receive(s, req)
    \/ \E s \in Slots : Admit(s)
    \/ \E s \in Slots, outcome \in ServerOutcomes : Settle(s, outcome)
    \/ \E s \in Slots : Release(s)

SpecServer == ServerInit /\ [][ServerNext]_vars

(***************************************************************************)
(* Validator runs: validateSleepData applied to an input.  The inputs are  *)
(* objects that lack required fields, sanitized records, and objects and   *)
(* other values as a caller could hand them over unsanitized.              *)
(***************************************************************************)
\* the power set of the required fields
FieldSets == SUBSET { REQUIRED_FIELDS[i] : i \in 1..Len(REQUIRED_FIELDS) }

\* a record whose durations are all zero and whose time span has no end
HollowBody ==
    [ValidBody EXCEPT !.totalSleep = Duration(Num(0), Num(0)),
                      !.rem = Duration(Num(0), Num(0)),
                      !.light = Duration(Num(0), Num(0)),
                      !.deep = Duration(Num(0), Num(0)),
                      !.sleepTime = TimeSpan(Str(<<"2", "2", ":", "0", "0">>), Str(<<>>))]

\* base without the fields of the set missing: the date becomes the leaf
\* noDate, the others the falsy value of kind k
Without(base, missing, noDate, k) ==
    [f \in DOMAIN base |->
        IF f \notin missing THEN base[f]
        ELSE IF f = "date" THEN noDate ELSE NoSub(k)]

LackingInputs ==
    { Without(base, missing, noDate, k) :
         base \in {ValidBody, HollowBody}, missing \in FieldSets,
         noDate \in {Undef, Str(<<>>)}, k \in {"undef", "null", "falsy"} }

DurationLeaves == { Duration(Num(0), Num(0)), Duration(Num(0), Num(5)), Duration(Num(3), Num(0)) }

\* records as sanitizeSleepData returns them
SanitizedInputs ==
    { sanitizeSleepData(x) : x \in SanInputs }
    \cup { [ValidBody EXCEPT !.totalSleep = a, !.rem = b, !.light = c, !.deep = d] :
              a \in DurationLeaves, b \in DurationLeaves,
              c \in DurationLeaves, d \in DurationLeaves }

UnsanitizedInputs ==
    { NonValue(k) : k \in SubKinds }
    \cup { [ValidBody EXCEPT ![f] = d] :
              f \in {"totalSleep", "rem", "light", "deep"},
              d \in { Duration(Num(-1), Num(0)), Duration(Num(0), Num(-5)),
                      Duration(Str(<<"a", "b", "c">>), Undef),
                      Duration(Str(<<"7">>), Str(<<"0">>)),
                      Duration(Undef, Undef), NoSub("truthy"), NoSub("arr") } }
    \cup { [ValidBody EXCEPT !.sleepTime = s] :
              s \in { TimeSpan(Undef, Undef), TimeSpan(Str(<<>>), Str(<<"0", "5", ":", "3", "0">>)),
                      TimeSpan(Str(Midnight), Str(Midnight)), NoSub("truthy") } }

\* sanitized records around the 10% tolerance: total sleep 3h 20min, the
\* phases 3h or less, awake minutes to and fro
ToleranceInputs ==
    { [ValidBody EXCEPT !.totalSleep = Duration(Num(3), Num(20)),
                        !.rem = Duration(Num(1), Num(0)),
                        !.light = Duration(Num(1), Num(0)),
                        !.deep = d,
                        !.awake = OnlyMinutes(Num(m))] :
          d \in { Duration(Num(1), Num(0)), Duration(Num(0), Num(59)),
                  Duration(Num(0), Num(0)) },
          m \in {0, 1, 19, 20, 21, 39, 40, 41, 42, 80, 81, 82} }

ValInputs == LackingInputs \cup SanitizedInputs \cup UnsanitizedInputs \cup ToleranceInputs

NoValidationResult == [valid |-> FALSE, errors |-> <<>>, warnings |-> <<>>]

ValInit ==
    /\ fnIn \in ValInputs /\ fnOut = NoValidationResult /\ fnPc = "start"
    /\ SanIdle /\ StrIdle
    /\ processEnv = [apiKey |-> TRUE, nodeEnv |-> "production"]
    /\ slots = [s \in Slots |-> IdleSlot]
    /\ rl = [k \in Clients |-> NoHit] /\ now = 0 /\ served = [k \in Clients |-> NoHit]

ValCall ==
    /\ fnPc = "start"
    /\ fnOut' = validateSleepData(fnIn)
    /\ fnPc' = "done"
    /\ UNCHANGED <<fnIn, sanIn, sanOut, sanPc, strIn, strOut, strPc, processEnv, slots,
                   rl, now, served>>

SpecVal == ValInit /\ [][ValCall]_vars

(***************************************************************************)
(* The limiter over several windows: one request at a time, from either    *)
(* client, with a body the handler rejects at once, while the clock moves  *)
(* on by half a window between requests.  The limiter's wait for its       *)
(* store takes no time.                                                    *)
(***************************************************************************)
\* the half windows the clock moves on
MaxTicks == 4

WindowRequests ==
    { Request("POST", AnalyzePath, k, FrontendOrigin, JsNull) : k \in Clients }

WindowInit ==
    /\ processEnv = [apiKey |-> TRUE, nodeEnv |-> "production"]
    /\ slots = [s \in Slots |-> IdleSlot]
    /\ SanIdle /\ StrIdle /\ ServerIdle

Tick ==
    /\ now < MaxTicks * (windowMs \div 2)
    /\ \A s \in Slots : slots[s].pc # "limiter"
    /\ now' = now + windowMs \div 2
    /\ UNCHANGED <<processEnv, slots, rl, served, sanIn, sanOut, sanPc, strIn, strOut,
                   strPc, fnIn, fnOut, fnPc>>

WindowNext ==
    \/ \E req \in WindowRequests : Receive("s1", req)
    \/ Admit("s1")
    \/ Release("s1")
    \/ Tick

SpecWindow == WindowInit /\ [][WindowNext]_vars

(***************************************************************************)
(* Prompt runs: buildUserPrompt applied to a sanitized record, to a second *)
(* sanitized record, and to the first one again.  fnIn holds the two       *)
(* records, fnOut the texts in the order they were built.                  *)
(***************************************************************************)
PromptTimes == { <<"7", ":", "3", "0">>, <<"0", "7", ":", "3", "0">>, Midnight }

PromptRecords ==
    { sanitizeSleepData(x) : x \in
        { [ValidBody EXCEPT ![f] = Duration(Num(h), Num(m))] :
              f \in {"totalSleep", "rem", "light", "deep"},
              h \in {0, 1, 11}, m \in {0, 1, 11} }
        \cup { [ValidBody EXCEPT !.awake = OnlyMinutes(m)] :
                  m \in {Num(0), Num(5), Num(48), Num(480), Undef} }
        \cup { [ValidBody EXCEPT !.sleepTime = TimeSpan(Str(a), Str(b))] :
                  a \in PromptTimes, b \in PromptTimes }
        \cup { [ValidBody EXCEPT !.date = d] : d \in DateLeaves }
        \cup { [ValidBody EXCEPT !.awake = OnlyMinutes(Num(0)),
                                 ![f] = Duration(Num(0), Num(0))] :
                  f \in {"rem", "light", "deep"} }
        \cup { ValidBody, EmptyObject } }

PromptInit ==
    /\ fnIn \in [a : PromptRecords, b : PromptRecords] /\ fnOut = <<>> /\ fnPc = "start"
    /\ SanIdle /\ StrIdle
    /\ processEnv = [apiKey |-> TRUE, nodeEnv |-> "production"]
    /\ slots = [s \in Slots |-> IdleSlot]
    /\ rl = [k \in Clients |-> NoHit] /\ now = 0 /\ served = [k \in Clients |-> NoHit]

PromptCall ==
    /\ fnPc = "start"
    /\ fnOut' = <<buildUserPrompt(fnIn.a)>>
    /\ fnPc' = "one"
    /\ UNCHANGED <<fnIn, sanIn, sanOut, sanPc, strIn, strOut, strPc, processEnv, slots,
                   rl, now, served>>

PromptOther ==
    /\ fnPc = "one"
    /\ fnOut' = Append(fnOut, buildUserPrompt(fnIn.b))
    /\ fnPc' = "two"
    /\ UNCHANGED <<fnIn, sanIn, sanOut, sanPc, strIn, strOut, strPc, processEnv, slots,
                   rl, now, served>>

PromptAgain ==
    /\ fnPc = "two"
    /\ fnOut' = Append(fnOut, buildUserPrompt(fnIn.a))
    /\ fnPc' = "done"
    /\ UNCHANGED <<fnIn, sanIn, sanOut, sanPc, strIn, strOut, strPc, processEnv, slots,
                   rl, now, served>>

SpecPrompt == PromptInit /\ [][PromptCall \/ PromptOther \/ PromptAgain]_vars

(***************************************************************************)
(* Parser runs: parseAnalysisText applied to a reply text.  The text is    *)
(* put together from up to three segments, each a plain text or a score    *)
(* line written part by part, so that lines with one part wrong, lines     *)
(* after lines and lines cut short all occur.  fnIn holds the segments,    *)
(* fnOut what the parser returned for their text.                          *)
(***************************************************************************)
Segment(kind, text, arrow, gap, word, points, fifty, percent, sign, label, close) ==
    [kind |-> kind, text |-> text, arrow |-> arrow, gap |-> gap, word |-> word,
     points |-> points, fifty |-> fifty, percent |-> percent, sign |-> sign,
     label |-> label, close |-> close]

PlainText(text) ==
    Segment("plain", text, <<>>, <<>>, <<>>, <<>>, <<>>, <<>>, <<>>, <<>>, <<>>)

GesamtWord == <<"G", "e", "s", "a", "m", "t", ":">>

\* "\u27A1\uFE0F Gesamt: 47 / 50 = 94 % (A+)"
GoodLine ==
    Segment("line", <<>>, ScoreArrow, <<" ">>, GesamtWord, <<"4", "7">>, <<"5", "0">>,
            <<"9", "4">>, <<"%">>, <<"A", "+", " ", "P", "e", "r", "f", "o", "r", "m", "a", "n", "c", "e">>, <<")">>)

SegmentText(seg) ==
    IF seg.kind = "plain" THEN seg.text
    ELSE seg.arrow \o seg.gap \o seg.word \o seg.gap \o seg.points \o seg.gap
         \o <<"/">> \o seg.gap \o seg.fifty \o seg.gap \o <<"=">> \o seg.gap
         \o seg.percent \o seg.gap \o seg.sign \o seg.gap \o <<"(">>
         \o seg.label \o seg.close

RECURSIVE ReplyText(_)
ReplyText(segs) ==
    IF segs = <<>> THEN <<>> ELSE SegmentText(Head(segs)) \o ReplyText(Tail(segs))

WholeLines ==
    { [GoodLine EXCEPT !.gap = g, !.percent = p, !.label = l] :
          g \in {<<>>, <<" ">>, <<"\n", "\t">>},
          p \in {<<"9", "4">>, <<"9", "4", ".", "5">>, <<".">>},
          l \in {<<"A", "+", " ", "P", "e", "r", "f", "o", "r", "m", "a", "n", "c", "e">>, <<"B", " ", "(", "x">>} }

BrokenLines ==
    { [GoodLine EXCEPT !.arrow = x] : x \in {<<>>, <<"<27A1>">>} }
    \cup { [GoodLine EXCEPT !.word = x] : x \in {<<"g", "e", "s", "a", "m", "t", ":">>, <<"G", "e", "s", "a", "m", "t">>} }
    \cup { [GoodLine EXCEPT !.points = x] : x \in {<<>>, <<"4", "x">>} }
    \cup { [GoodLine EXCEPT !.fifty = x] : x \in {<<"1", "0", "0">>, <<"5">>, <<"5", "0", "0">>} }
    \cup { [GoodLine EXCEPT !.percent = x] : x \in {<<>>, <<"9", " ", "4">>, <<"9", "4", ",", "5">>} }
    \cup { [GoodLine EXCEPT !.sign = <<>>], [GoodLine EXCEPT !.label = <<>>],
           [GoodLine EXCEPT !.close = <<>>],
           [GoodLine EXCEPT !.label = <<>>, !.close = <<>>] }

PlainTexts == { PlainText(<<>>), PlainText(<<"H", "i", " ", "(", "o", "k", ")", " ">>), PlainText(<<"\n">>) }

ParserInputs ==
    { <<a, b, c>> : a \in PlainTexts \cup WholeLines \cup BrokenLines,
                    b \in PlainTexts \cup WholeLines \cup BrokenLines,
                    c \in PlainTexts
                         \cup { [GoodLine EXCEPT !.percent = <<"2", "0">>, !.label = <<"D">>],
                                [GoodLine EXCEPT !.close = <<>>] } }

ParseInit ==
    /\ fnIn \in ParserInputs /\ fnOut = NothingParsed /\ fnPc = "start"
    /\ SanIdle /\ StrIdle
    /\ processEnv = [apiKey |-> TRUE, nodeEnv |-> "production"]
    /\ slots = [s \in Slots |-> IdleSlot]
    /\ rl = [k \in Clients |-> NoHit] /\ now = 0 /\ served = [k \in Clients |-> NoHit]

ParseCall ==
    /\ fnPc = "start"
    /\ fnOut' = parseAnalysisText(ReplyText(fnIn))
    /\ fnPc' = "done"
    /\ UNCHANGED <<fnIn, sanIn, sanOut, sanPc, strIn, strOut, strPc, processEnv, slots,
                   rl, now, served>>

SpecParse == ParseInit /\ [][ParseCall]_vars

(***************************************************************************)
(* The handler before the refactoring (the former api/analyze.js) and the  *)
(* README's description of the response, as far as the 200 response goes.  *)
(***************************************************************************)
\* formatSleepData(sleepData), for a record validateSleepInput has sanitized
formatSleepData(sleepData) ==
    [date |-> LeafText(sleepData.date),
     totalSleep |-> LeafText(sleepData.totalSleep.hours) \o "h "
                    \o LeafText(sleepData.totalSleep.minutes) \o "min",
     awake |-> LeafText(sleepData.awake.minutes) \o "min",
     rem |-> LeafText(sleepData.rem.hours) \o "h "
             \o LeafText(sleepData.rem.minutes) \o "min",
     light |-> LeafText(sleepData.light.hours) \o "h "
               \o LeafText(sleepData.light.minutes) \o "min",
     deep |-> LeafText(sleepData.deep.hours) \o "h "
              \o LeafText(sleepData.deep.minutes) \o "min",
     sleepSpan |-> LeafText(sleepData.sleepTime.from) \o " - "
                   \o LeafText(sleepData.sleepTime.to)]

SeeAnalysisAbove == SeeAnalysis \o <<" ", "o", "b", "e", "n">>

\* parseAnalysis of the former handler: the same pattern, another sentinel
parseAnalysis(analysisText) ==
    [analysis |-> analysisText,
     score |-> IF ScoreMatchFrom(analysisText, 1).ok
               THEN parseAnalysisText(analysisText).score
               ELSE SeeAnalysisAbove,
     trend |-> SeeAnalysisAbove,
     recommendation |-> SeeAnalysisAbove]

\* the body of the former handler's 200 response
legacySuccessBody(sleepData, analysis) ==
    [success |-> TRUE,
     message |-> "Analyse erfolgreich erstellt",
     timestamp |-> Timestamp,
     rawData |-> formatSleepData(sleepData),
     analysis |-> parseAnalysis(analysis).analysis,
     score |-> parseAnalysis(analysis).score,
     trend |-> parseAnalysis(analysis).trend,
     recommendation |-> parseAnalysis(analysis).recommendation]

\* the properties of the response the README documents
DocumentedProperties ==
    { "success", "message", "timestamp", "rawData", "score", "analysis", "trend",
      "recommendation" }

\* the properties of the JSON object analyzeHandler sends for a body
Properties(body) ==
    CASE body.kind = "analysis" ->
            { "success", "message", "timestamp", "analysis", "score", "trend",
              "recommendation" }
      [] body.kind = "error" -> { "success", "error" }
      [] OTHER -> {}

(***************************************************************************)
(* Properties                                                              *)
(***************************************************************************)
\* a leaf that holds no number: not a number type, or a string without a digit
NonNumericLeaf(v) ==
    \/ v.t \in {"nan", "inf", "null", "undef", "true", "obj"}
    \/ v.t = "str" /\ \A i \in 1..Len(v.s) : v.s[i] \notin Digits

NumericLeafRanges ==
    { [f |-> "totalSleep", p |-> "hours", lo |-> 0, hi |-> 24],
      [f |-> "rem", p |-> "hours", lo |-> 0, hi |-> 12],
      [f |-> "light", p |-> "hours", lo |-> 0, hi |-> 12],
      [f |-> "deep", p |-> "hours", lo |-> 0, hi |-> 12],
      [f |-> "totalSleep", p |-> "minutes", lo |-> 0, hi |-> 59],
      [f |-> "rem", p |-> "minutes", lo |-> 0, hi |-> 59],
      [f |-> "light", p |-> "minutes", lo |-> 0, hi |-> 59],
      [f |-> "deep", p |-> "minutes", lo |-> 0, hi |-> 59],
      [f |-> "awake", p |-> "minutes", lo |-> 0, hi |-> 480] }

\* C2: for every object input, every numeric field of the sanitized record is
\* an integer within its range (total hours 0..24, phase hours 0..12, minutes
\* 0..59, awake minutes 0..480), and a leaf that holds no number (or is
\* missing) becomes the field's minimum.
C2_ClampingTotality ==
    (sanPc \in {"once", "twice"} /\ IsTruthyObject(sanIn)) =>
        \A r \in NumericLeafRanges :
            LET out == sanOut[1][r.f][r.p]
                in  == Prop(Field(sanIn, r.f), r.p)
            IN  /\ out.t = "num"
                /\ out.n \in r.lo..r.hi
                /\ NonNumericLeaf(in) => out.n = r.lo

C2_Witness ==
    /\ sanPc = "once"
    /\ sanIn.k = "obj"
    /\ sanIn.totalSleep.hours = Num(Huge)
    /\ sanIn.totalSleep.minutes = NaN
    /\ sanOut[1].totalSleep.hours = Num(24)
    /\ sanOut[1].totalSleep.minutes = Num(0)

\* C4: sanitizing a sanitized record changes nothing, field by field (the
\* current date held fixed); for a non-object both results are null.
C4_SanitizeIdempotent ==
    sanPc = "twice" => sanOut[2] = sanOut[1]

C4_Witness ==
    /\ sanPc = "twice"
    /\ sanIn.k = "obj"
    /\ sanIn.rem.hours = Num(30)
    /\ sanIn.rem.minutes = Str(<<"1", "2", "a", "b">>)
    /\ sanOut[1].rem = Duration(Num(12), Num(12))
    /\ sanOut[2] = sanOut[1]

\* C3: the result of sanitizeString matches none of the injection patterns,
\* whatever the input, also when removing a phrase or a control character
\* joins the fragments around it.
C3_NoInjectionLeft ==
    strPc \in {"once", "twice"} => ~ContainsInjection(strOut[1])

\* the slots that hold a POST request the handler has been invoked for
PostSlots == { s \in Slots : slots[s].pc # "idle" /\ slots[s].req.method = "POST" }

\* the position of the first call of name in a trace; 0 when there is none
RECURSIVE CallIndex(_, _, _)
CallIndex(trace, name, i) ==
    IF i > Len(trace) THEN 0
    ELSE IF trace[i] = name THEN i
    ELSE CallIndex(trace, name, i + 1)

Called(s, name) == CallIndex(slots[s].trace, name, 1) # 0

\* C1: for every POST request the gateway is called only after
\* validateSleepData returned valid:true for the sanitized body; when it
\* returned valid:false the response is 400 with the errors joined by ", "
\* and the gateway is never called for that request.
C1_GatewayOnlyAfterValid ==
    \A s \in PostSlots :
        /\ Called(s, "sendChatCompletion") =>
              /\ Called(s, "validateSleepData")
              /\ CallIndex(slots[s].trace, "validateSleepData", 1)
                    < CallIndex(slots[s].trace, "sendChatCompletion", 1)
              /\ slots[s].validation.valid
        /\ Called(s, "validateSleepData") =>
              slots[s].validation = validateSleepData(sanitizeSleepData(slots[s].req.body))
        /\ (Called(s, "validateSleepData") /\ ~slots[s].validation.valid) =>
              /\ slots[s].pc = "done"
              /\ slots[s].resp.status = 400
              /\ slots[s].resp.body.message = Join(slots[s].validation.errors, ", ")
              /\ ~Called(s, "sendChatCompletion")

C1_Witness ==
    \E s, t \in PostSlots :
        /\ slots[s].pc = "done"
        /\ ~slots[s].validation.valid
        /\ Len(slots[s].validation.errors) >= 2
        /\ slots[s].resp.status = 400
        /\ slots[t].validation.valid
        /\ Called(t, "sendChatCompletion")

\* the slots whose gateway call has settled
SettledSlots == { s \in Slots : slots[s].outcome # NoOutcome }

\* the HTTP client returned an ok response that carries reply content
OkWithContent(outcome) ==
    /\ outcome.kind = "response"
    /\ ResponseOk(outcome.status)
    /\ \/ outcome.body = "number"
       \/ outcome.body = "text" /\ outcome.content # <<>>

\* C7: sendChatCompletion never throws; whatever the HTTP client does, it
\* resolves to a result with a success flag and a status code; success is true
\* exactly when the response is ok and its content is non-empty, and then the
\* content is returned; otherwise success is false with an error string.
C7_GatewayNeverThrows ==
    \A s \in SettledSlots :
        LET outcome == slots[s].outcome
            result  == slots[s].gw
        IN  /\ ~result.threw
            /\ result.success \in BOOLEAN
            /\ result.statusCode \in 100..599
            /\ result.success <=> OkWithContent(outcome)
            /\ result.success =>
                  /\ result.content # Undef
                  /\ outcome.body = "text" => result.content = Str(outcome.content)
            /\ ~result.success => result.error # ""

C7_Witness ==
    \E s, t \in SettledSlots :
        /\ slots[s].outcome.kind = "reject"
        /\ slots[s].gw = GatewayFailure("fetch failed", 500)
        /\ slots[t].outcome.kind = "response"
        /\ slots[t].gw = GatewaySuccess(Str(ReplyWithScore))

\* C8: every response to a POST request is either 200 with a success:true
\* analysis body or a 4xx/5xx status with a success:false error body; never a
\* success:false body with status 200, never a success:true body with an error
\* status.
C8_NoMixedResponse ==
    \A s \in PostSlots :
        slots[s].pc = "done" =>
            LET resp == slots[s].resp
            IN  \/ /\ resp.status = 200
                   /\ resp.body.kind = "analysis"
                   /\ resp.body.success
                \/ /\ resp.status \in 400..599
                   /\ resp.body.kind = "error"
                   /\ ~resp.body.success

\* two outcomes of the HTTP client that differ at most in the internal error
\* text: the message of the exception, the text of the error body
SameButErrorText(o1, o2) ==
    /\ o1.kind = o2.kind
    /\ o1.status = o2.status
    /\ o1.body = o2.body
    /\ ~ResponseOk(o1.status) \/ o1.content = o2.content

\* C9: the message sent to the client after a gateway failure does not depend
\* on the internal error text: two requests whose gateway failures differ only
\* in that text get the same message.
C9_GenericGatewayMessage ==
    \A s, t \in SettledSlots \cap PostSlots :
        ( /\ slots[s].pc = "done" /\ slots[t].pc = "done"
          /\ ~slots[s].gw.success /\ ~slots[t].gw.success
          /\ SameButErrorText(slots[s].outcome, slots[t].outcome) )
        => slots[s].resp.body.message = slots[t].resp.body.message

MissingKeyResponse ==
    Response(500, createErrorResponse(500, "API configuration missing",
                                      "MISSING_API_KEY", processEnv))

\* C10: without the credential every POST request gets the same 500 response
\* with a fixed message before its body is read: the sanitizer, the validator,
\* the prompt builder and the gateway are not called for it.
C10_MissingKeyFailsFast ==
    ~processEnv.apiKey =>
        \A s \in PostSlots :
            /\ slots[s].pc = "done"
            /\ slots[s].trace = <<>>
            /\ slots[s].resp = MissingKeyResponse
            /\ slots[s].resp.status = 500
            /\ slots[s].resp.body.message = "API configuration missing"
            /\ \A t \in PostSlots : slots[t].resp = slots[s].resp

C10_Witness ==
    /\ ~processEnv.apiKey
    /\ slots["s1"].pc = "done" /\ slots["s1"].req.method = "POST"
    /\ slots["s2"].pc = "done" /\ slots["s2"].req.method = "POST"
    /\ slots["s1"].req.body = ValidBody
    /\ slots["s2"].req.body = JsNull
    /\ slots["s1"].resp = slots["s2"].resp
    /\ slots["s1"].resp.status = 500

\* the slots whose request waits in the limiter
LimiterSlots == { s \in Slots : slots[s].pc = "limiter" }

\* what the limiter does with the request of slot s when it resumes
C5_LimiterStep(s) ==
    (slots[s].pc = "limiter" /\ slots'[s].pc # "limiter") =>
        IF slots[s].hit.totalHits <= 30
        THEN /\ slots'[s].pc \in {"awaiting", "done"}
             /\ slots'[s].resp.status # 429
             /\ slots'[s].trace = analyzeHandler(slots[s].req, processEnv).trace
             /\ served'[slots[s].req.key].totalHits = served[slots[s].req.key].totalHits + 1
        ELSE /\ slots'[s].pc = "done"
             /\ slots'[s].resp.status = 429
             /\ slots'[s].resp.body.message = RateLimitMessage
             /\ slots'[s].trace = <<>>
             /\ served' = served

\* C5: of the POST /api/analyze requests of one client key in one window,
\* however they interleave, the first 30 are handed to the handler and the
\* 31st and every later one is rejected with 429 before the sanitizer, the
\* validator or the gateway runs for it; each request is counted once, with a
\* hit number of its own, and never more than 30 are passed on.
C5_RateLimit ==
    /\ [](\A k \in Clients : served[k].totalHits <= 30)
    /\ [](\A s, t \in LimiterSlots :
            (s # t /\ slots[s].req.key = slots[t].req.key) => slots[s].hit # slots[t].hit)
    /\ [](\A s \in LimiterSlots : slots[s].hit.totalHits \in 1..rl[slots[s].req.key].totalHits)
    /\ [][\A s \in Slots :
            /\ C5_LimiterStep(s)
            /\ (slots[s].pc = "idle" /\ slots'[s].pc # "idle"
                /\ slots'[s].req.method = "POST" /\ slots'[s].req.path = AnalyzePath)
               => /\ slots'[s].pc = "limiter"
                  /\ rl'[slots'[s].req.key].totalHits = rl[slots'[s].req.key].totalHits + 1
                  /\ slots'[s].hit.totalHits = rl'[slots'[s].req.key].totalHits]_vars

C5_Witness ==
    /\ rl["ipA"].totalHits = 32
    /\ served["ipA"].totalHits = 30
    /\ slots["s1"].pc = "done" /\ slots["s1"].req.key = "ipA"
    /\ slots["s1"].resp.status = 429
    /\ slots["s2"].pc = "awaiting" /\ slots["s2"].req.key = "ipA"

\* C6: GET / is answered at once with 200 and the static health payload,
\* however many requests its client has made, and no client's rate-limit
\* counter changes.
C6_HealthExempt ==
    [][\A s \in Slots :
          (slots[s].pc = "idle" /\ slots'[s].pc # "idle"
           /\ slots'[s].req.method = "GET" /\ slots'[s].req.path = "/")
          => /\ slots'[s].pc = "done"
             /\ slots'[s].resp.status = 200
             /\ slots'[s].resp.body.kind = "health"
             /\ slots'[s].resp.body.message = "healthy"
             /\ rl' = rl]_vars

C6_Witness ==
    \E s \in Slots :
        /\ slots[s].pc = "done"
        /\ slots[s].req.method = "GET" /\ slots[s].req.path = "/"
        /\ slots[s].req.key = "ipA"
        /\ rl["ipA"].totalHits > 30
        /\ slots[s].resp = Response(200, HealthBody)

\* the slots that hold a request the handler has been invoked for
InvokedSlots == { s \in Slots : slots[s].pc # "idle" }

\* C11: the handler looks at the method first: OPTIONS gets an empty 200, any
\* other method but POST gets 405 'Method not allowed', and nothing else runs
\* for them, with or without the credential; only a POST enters the pipeline.
C11_MethodDispatchFirst ==
    \A s \in InvokedSlots :
        LET slot == slots[s]
        IN  /\ slot.req.method = "OPTIONS" =>
                  /\ slot.pc = "done"
                  /\ slot.resp.status = 200
                  /\ slot.resp.body.kind = "empty"
                  /\ slot.trace = <<>>
            /\ slot.req.method \notin {"OPTIONS", "POST"} =>
                  /\ slot.pc = "done"
                  /\ slot.resp.status = 405
                  /\ slot.resp.body.kind = "error"
                  /\ slot.resp.body.message = "Method not allowed"
                  /\ slot.trace = <<>>
            /\ (slot.trace # <<>> \/ slot.pc = "awaiting" \/ slot.resp.status = 500)
                  => slot.req.method = "POST"

C11_Witness ==
    /\ ~processEnv.apiKey
    /\ slots["s1"].pc = "done" /\ slots["s1"].req.method = "OPTIONS"
    /\ slots["s1"].resp.status = 200
    /\ slots["s2"].pc = "done" /\ slots["s2"].req.method = "PUT"
    /\ slots["s2"].req.body = ValidBody
    /\ slots["s2"].resp.status = 405

\* the leaf or sub-value is falsy as a property of a JSON object
FalsyField(data, f) ==
    IF f = "date"
    THEN data.date \in {Undef, Null, Str(<<>>), Num(0)}
    ELSE data[f].k \in {"undef", "null", "falsy"}

\* the required fields the object lacks, in the order of the list
LackedFields(data) == SelectSeq(REQUIRED_FIELDS, LAMBDA f : FalsyField(data, f))

\* C12: for an object that lacks some of the required fields validateSleepData
\* returns valid:false with exactly one 'Field required: <field>' error for
\* each field that is missing, in the order date, totalSleep, rem, light, deep,
\* sleepTime, and nothing else: no duration error, no time-span error.
C12_RequiredFieldErrors ==
    (fnPc = "done" /\ fnIn.k = "obj" /\ LackedFields(fnIn) # <<>>) =>
        /\ ~fnOut.valid
        /\ Len(fnOut.errors) = Len(LackedFields(fnIn))
        /\ \A i \in 1..Len(fnOut.errors) :
              fnOut.errors[i] = "Field required: " \o LackedFields(fnIn)[i]
        /\ fnOut.warnings = <<>>

C12_Witness ==
    /\ fnPc = "done"
    /\ fnIn = Without(HollowBody, {"rem", "sleepTime"}, Undef, "undef")
    /\ fnOut.errors = <<"Field required: rem", "Field required: sleepTime">>
    /\ ~fnOut.valid

\* the validator's messages that report a problem with the field
EntriesFor(f) ==
    {"Field required: " \o f}
    \cup (CASE f = "totalSleep" -> {"Total sleep duration is required"}
            [] f = "rem"        -> {"REM sleep duration is required"}
            [] f = "light"      -> {"Light sleep duration is required"}
            [] f = "deep"       -> {"Deep sleep duration is required"}
            [] f = "sleepTime"  -> {"Sleep start time is required",
                                    "Sleep end time is required"}
            [] OTHER            -> {})

\* C13: with the credential in place, a POST whose JSON object body omits
\* required fields is answered 400 with a message that has one entry per
\* missing field, and the gateway is not called for it, in particular when
\* sleepTime or date is omitted.
C13_MissingFieldsRejected ==
    \A s \in PostSlots :
        ( /\ processEnv.apiKey
          /\ slots[s].req.body.k = "obj"
          /\ LackedFields(slots[s].req.body) # <<>> )
        => /\ slots[s].pc = "done"
           /\ slots[s].resp.status = 400
           /\ \A i \in 1..Len(LackedFields(slots[s].req.body)) :
                 \E j \in 1..Len(slots[s].validation.errors) :
                    slots[s].validation.errors[j]
                       \in EntriesFor(LackedFields(slots[s].req.body)[i])
           /\ slots[s].resp.body.message = Join(slots[s].validation.errors, ", ")
           /\ ~Called(s, "sendChatCompletion")

DurationMessages ==
    << [f |-> "totalSleep", msg |-> "Total sleep duration is required"],
       [f |-> "rem",        msg |-> "REM sleep duration is required"],
       [f |-> "light",      msg |-> "Light sleep duration is required"],
       [f |-> "deep",       msg |-> "Deep sleep duration is required"] >>

\* the duration messages of the fields of data that are zero hours, zero minutes
ZeroDurations(data) ==
    SelectSeq(DurationMessages,
              LAMBDA e : data[e.f].hours = Num(0) /\ data[e.f].minutes = Num(0))

Shown(duration) ==
    Text(IntToStr(duration.hours.n)) \o "h " \o Text(IntToStr(duration.minutes.n)) \o "min"

\* the seven values of a sanitized record, each once, in the fixed order
Listing(data) ==
    "Analysiere folgende Schlaf-Daten vom " \o Text(data.date.s) \o ":\n\n"
    \o "- Gesamtschlaf: " \o Shown(data.totalSleep) \o "\n"
    \o "- Wach (Awake): " \o Text(IntToStr(data.awake.minutes.n)) \o "min\n"
    \o "- REM-Schlaf: " \o Shown(data.rem) \o "\n"
    \o "- Kern-Schlaf (Light): " \o Shown(data.light) \o "\n"
    \o "- Tief-Schlaf (Deep): " \o Shown(data.deep) \o "\n"
    \o "- Zeitspanne: " \o Text(data.sleepTime.from.s) \o " - " \o Text(data.sleepTime.to.s)

\* C15: buildUserPrompt gives the same text for the same sanitized record, the
\* text lists date, total sleep, awake minutes, REM, light, deep and the time
\* span once each in that order with durations as '<h>h <m>min' and zeros
\* written out, and two different sanitized records give different texts.
C15_PromptLossless ==
    fnPc = "done" =>
        /\ fnOut[3] = fnOut[1]
        /\ fnOut[1] = Listing(fnIn.a)
        /\ fnOut[2] = Listing(fnIn.b)
        /\ fnIn.a # fnIn.b => fnOut[1] # fnOut[2]

C15_Witness ==
    /\ fnPc = "done"
    /\ fnIn.a = ValidBody
    /\ fnIn.b = [ValidBody EXCEPT !.awake = OnlyMinutes(Num(0)),
                                  !.rem = Duration(Num(0), Num(0))]
    /\ sanitizeSleepData(fnIn.a) = fnIn.a /\ sanitizeSleepData(fnIn.b) = fnIn.b
    /\ fnOut[1] = "Analysiere folgende Schlaf-Daten vom 2024-12-02:\n\n"
                  \o "- Gesamtschlaf: 7h 30min\n- Wach (Awake): 5min\n"
                  \o "- REM-Schlaf: 1h 30min\n- Kern-Schlaf (Light): 3h 0min\n"
                  \o "- Tief-Schlaf (Deep): 2h 30min\n- Zeitspanne: 22:00 - 05:30"
    /\ fnOut[2] = "Analysiere folgende Schlaf-Daten vom 2024-12-02:\n\n"
                  \o "- Gesamtschlaf: 7h 30min\n- Wach (Awake): 0min\n"
                  \o "- REM-Schlaf: 0h 0min\n- Kern-Schlaf (Light): 3h 0min\n"
                  \o "- Tief-Schlaf (Deep): 2h 30min\n- Zeitspanne: 22:00 - 05:30"
    /\ fnOut[3] = fnOut[1]

\* the index of the first ")" of a text, 0 when it has none
FirstClose(text) ==
    IF \E k \in 1..Len(text) : text[k] = ")"
    THEN CHOOSE k \in 1..Len(text) :
            text[k] = ")" /\ \A j \in 1..(k - 1) : text[j] # ")"
    ELSE 0

\* a score line is written correctly up to its opening parenthesis
ScoreLineOpens(seg) ==
    /\ seg.kind = "line"
    /\ seg.arrow = ScoreArrow
    /\ \A i \in 1..Len(seg.gap) : seg.gap[i] \in WhiteSpace
    /\ seg.word = GesamtWord
    /\ seg.points # <<>> /\ \A i \in 1..Len(seg.points) : seg.points[i] \in Digits
    /\ seg.fifty = <<"5", "0">>
    /\ seg.percent # <<>>
    /\ \A i \in 1..Len(seg.percent) : seg.percent[i] \in Digits \cup {"."}
    /\ seg.sign = <<"%">>

\* the score of the first occurrence of the pattern in the text of the
\* segments: the label runs up to the next ")" of the text and is not empty
RECURSIVE FirstScore(_)
FirstScore(segs) ==
    IF segs = <<>> THEN SeeAnalysis
    ELSE IF /\ ScoreLineOpens(Head(segs))
            /\ FirstClose(Head(segs).label \o Head(segs).close \o ReplyText(Tail(segs))) > 1
         THEN Head(segs).percent \o <<"%", " ", "(">>
              \o SubSeq(Head(segs).label \o Head(segs).close \o ReplyText(Tail(segs)), 1,
                        FirstClose(Head(segs).label \o Head(segs).close
                                   \o ReplyText(Tail(segs))) - 1)
              \o <<")">>
         ELSE FirstScore(Tail(segs))

\* C16: for every reply text parseAnalysisText returns a result: analysis is
\* the text itself, score is '<percent>% (<label>)' of the first occurrence of
\* the score pattern or 'Siehe Analyse' when there is none, and trend and
\* recommendation are 'Siehe Analyse'.
C16_ParserTotal ==
    fnPc = "done" =>
        /\ fnOut.analysis = ReplyText(fnIn)
        /\ fnOut.score = FirstScore(fnIn)
        /\ fnOut.trend = SeeAnalysis
        /\ fnOut.recommendation = SeeAnalysis

C16_Witness ==
    /\ fnPc = "done"
    /\ fnIn = << [GoodLine EXCEPT !.fifty = <<"1", "0", "0">>],
                 [GoodLine EXCEPT !.percent = <<"9", "4", ".", "5">>, !.gap = <<>>],
                 [GoodLine EXCEPT !.percent = <<"2", "0">>, !.label = <<"D">>] >>
    /\ fnOut.analysis = ReplyText(fnIn)
    /\ fnOut.score = <<"9", "4", ".", "5", "%", " ", "(", "A", "+", " ", "P", "e", "r",
                       "f", "o", "r", "m", "a", "n", "c", "e", ")">>

\* a reply without the pattern
C16_WitnessFallback ==
    /\ fnPc = "done"
    /\ fnIn = << PlainText(<<"H", "i", " ", "(", "o", "k", ")", " ">>),
                 [GoodLine EXCEPT !.sign = <<>>], PlainText(<<>>) >>
    /\ fnOut.score = SeeAnalysis
    /\ fnOut.analysis = ReplyText(fnIn)

\* an exception is thrown while the request is in the pipeline: the HTTP
\* client rejects, reading the body fails, the JSON value is null (reading
\* its choices throws), or the content is no string (match is no function)
ThrownInPipeline(outcome) ==
    \/ outcome.kind = "reject"
    \/ /\ outcome.kind = "response"
       /\ \/ ~ResponseOk(outcome.status) /\ outcome.body = "textError"
          \/ ResponseOk(outcome.status) /\ outcome.body \in {"badjson", "null", "number"}

\* C17: a request during whose pipeline an exception is thrown is answered
\* with status 500 and the message 'Interner Fehler bei der Analyse', the
\* exception's message is not in the body, and an error body has details only
\* when NODE_ENV is 'development'.
C17_ExceptionsAnswered ==
    \A s \in PostSlots :
        slots[s].pc = "done" =>
            /\ (Called(s, "sendChatCompletion") /\ ThrownInPipeline(slots[s].outcome)) =>
                  /\ slots[s].resp.status = 500
                  /\ slots[s].resp.body.kind = "error"
                  /\ slots[s].resp.body.message = "Interner Fehler bei der Analyse"
            /\ slots[s].resp.body.details # "" => processEnv.nodeEnv = "development"

ReceivedSlots == { s \in Slots : slots[s].pc # "idle" }

\* the origins of the configuration, written out
ConfiguredOrigins ==
    { "https://minicube87.github.io", "http://localhost:8000", "http://127.0.0.1:8000" }

\* the request went on from the CORS middleware: it waits in the limiter, or
\* in its handler, or it was answered by the limiter or by its route
PassedOn(slot) ==
    \/ slot.pc \in {"limiter", "awaiting"}
    \/ /\ slot.pc = "done"
       /\ slot.resp.status # 204
       /\ \/ slot.resp = TooManyRequests
          \/ ServerRoute(slot.req) = "health" /\ slot.resp.body = HealthBody
          \/ ServerRoute(slot.req) = "notFound" /\ slot.resp.status = 404
          \/ ServerRoute(slot.req) = "analyze" /\ slot.resp.body.kind \in {"error", "analysis"}

\* C18: a response carries Access-Control-Allow-Origin exactly when the
\* request's Origin is one of the configured origins, and its value is then
\* that origin, never '*'; a request that is no OPTIONS request and comes from
\* another origin or names none gets no such header and is passed on.
C18_CorsAllowList ==
    \A s \in ReceivedSlots :
        /\ slots[s].allowOrigin # "" <=> slots[s].req.origin \in ConfiguredOrigins
        /\ slots[s].allowOrigin # "" =>
              slots[s].allowOrigin = slots[s].req.origin /\ slots[s].allowOrigin # "*"
        /\ (slots[s].req.method # "OPTIONS" /\ slots[s].req.origin \notin ConfiguredOrigins) =>
              slots[s].allowOrigin = "" /\ PassedOn(slots[s])

C18_Witness ==
    /\ slots["s1"].pc = "done"
    /\ slots["s1"].req.origin = "https://evil.example"
    /\ slots["s1"].allowOrigin = ""
    /\ slots["s1"].resp.status = 200
    /\ slots["s2"].pc = "done"
    /\ slots["s2"].req.origin = "http://localhost:8000"
    /\ slots["s2"].allowOrigin = "http://localhost:8000"

\* how often the handler has called the gateway for the request of slot s
GatewayCalls(s) ==
    Len(SelectSeq(slots[s].trace, LAMBDA name : name = "sendChatCompletion"))

NoRetryInState ==
    \A s \in InvokedSlots :
        /\ GatewayCalls(s) <= 1
        /\ GatewayCalls(s) = 1 <=>
              /\ slots[s].req.method = "POST"
              /\ processEnv.apiKey
              /\ validateSleepData(sanitizeSleepData(slots[s].req.body)).valid
        /\ slots[s].pc = "awaiting" => slots[s].resp = NoResponse
        /\ slots[s].pc = "done" => slots[s].resp # NoResponse
        /\ (slots[s].outcome # NoOutcome /\ ~slots[s].gw.success) =>
              /\ slots[s].pc = "done"
              /\ slots[s].resp.status = StatusOr500(slots[s].gw.statusCode)
              /\ slots[s].resp.body.kind = "error"
              /\ slots[s].trace[Len(slots[s].trace)] = "sendChatCompletion"

\* a response that was sent, and the outcome of the outbound call, stay
OneResponseInStep ==
    \A s \in Slots :
        /\ slots[s].resp # NoResponse => slots'[s].resp = slots[s].resp
        /\ slots[s].outcome # NoOutcome => slots'[s].outcome = slots[s].outcome

\* C19: for each request the handler calls the gateway at most once, exactly
\* once when the credential is there and the validation passes and not at all
\* otherwise; a failed call is answered with the error response at once, with
\* no further call; and each request gets exactly one response, which is
\* never followed by another.
C19_NoRetry == []NoRetryInState /\ [][OneResponseInStep]_vars

C19_Witness ==
    /\ processEnv.apiKey
    /\ slots["s1"].pc = "done"
    /\ slots["s1"].outcome.kind = "reject"
    /\ GatewayCalls("s1") = 1
    /\ slots["s1"].resp.status = 500
    /\ slots["s2"].pc = "done"
    /\ slots["s2"].req.method = "POST"
    /\ GatewayCalls("s2") = 0
    /\ slots["s2"].resp.status = 400

\* C20: for a valid request and an LLM reply the 200 response of the handler
\* api/analyze.js exports has the properties the README documents and the
\* former handler sent (success, message, timestamp, rawData, score, analysis,
\* trend, recommendation), rawData among them.
C20_BackwardCompatible ==
    \A s \in PostSlots :
        (slots[s].pc = "done" /\ slots[s].resp.status = 200
         /\ slots[s].resp.body.kind = "analysis"
         /\ sanitizeSleepData(slots[s].req.body) = slots[s].req.body) =>
            /\ Properties(slots[s].resp.body) = DocumentedProperties
            /\ Properties(slots[s].resp.body)
                  = DOMAIN legacySuccessBody(slots[s].req.body, slots[s].gw.content.s)
            /\ "rawData" \in Properties(slots[s].resp.body)

\* the number of days of a month of a year of the Gregorian calendar
DaysInMonth(year, month) ==
    IF month \in {4, 6, 9, 11} THEN 30
    ELSE IF month # 2 THEN 31
    ELSE IF (year % 4 = 0 /\ year % 100 # 0) \/ year % 400 = 0 THEN 29
    ELSE 28

\* a YYYY-MM-DD string that names a day of the calendar
RealCalendarDate(date) ==
    /\ date.t = "str"
    /\ DateRegexMatches(date.s)
    /\ LET year  == DigitVal(date.s[1]) * 1000 + DigitVal(date.s[2]) * 100
                    + DigitVal(date.s[3]) * 10 + DigitVal(date.s[4])
           month == DigitVal(date.s[6]) * 10 + DigitVal(date.s[7])
           day   == DigitVal(date.s[9]) * 10 + DigitVal(date.s[10])
       IN  month \in 1..12 /\ day \in 1..DaysInMonth(year, month)

\* C21: the sanitized date is the input date when that is a YYYY-MM-DD string
\* naming a real calendar date, and today's date for every other input
\* (no string, another shape, a month or a day that does not exist).
C21_OnlyRealDates ==
    (sanPc \in {"once", "twice"} /\ sanIn.k = "obj") =>
        sanOut[1].date = IF RealCalendarDate(sanIn.date) THEN sanIn.date ELSE Str(Today)

\* the minutes of a sanitized duration
MinutesOf(duration) == duration.hours.n * 60 + duration.minutes.n

\* the minutes by which the phases and the awake time miss the total sleep
PhaseDifference(data) ==
    Abs(MinutesOf(data.rem) + MinutesOf(data.light) + MinutesOf(data.deep)
        + data.awake.minutes.n - MinutesOf(data.totalSleep))

SameInputSameResponse ==
    \A s \in PostSlots, t \in PostSlots :
        ( /\ slots[s].pc = "done" /\ slots[t].pc = "done"
          /\ slots[s].req.body = slots[t].req.body
          /\ slots[s].outcome = slots[t].outcome )
        => slots[s].resp = slots[t].resp

\* whatever the other requests are doing, a new request can start and a
\* waiting one can resume
NeverHeldUp ==
    \A s \in Slots :
        /\ slots[s].pc = "idle" =>
              ENABLED Invoke(s, Request("POST", AnalyzePath, "ipA", FrontendOrigin, JsNull))
        /\ slots[s].pc = "awaiting" =>
              ENABLED Settle(s, HttpOutcome("reject", "fetch failed", 0, "", <<>>))

\* a step of one request leaves every other request as it was
OthersUntouched ==
    \A s \in Slots, t \in Slots :
        (s # t /\ slots'[s] # slots[s]) => slots'[t] = slots[t]

Rejects(s) == slots[s].pc = "limiter" /\ slots'[s].resp.status = 429

\* the limiter takes up a request in slot s in this step
Counts(s) == slots[s].pc = "idle" /\ slots'[s].pc = "limiter"

C24_WindowStep ==
    \A s \in Slots :
        /\ Rejects(s) =>
              /\ slots[s].hit.totalHits > 30
              /\ now - slots[s].hit.windowStart < 900000
              /\ served[slots[s].req.key]
                    = [totalHits |-> 30, windowStart |-> slots[s].hit.windowStart]
        /\ Counts(s) =>
              /\ \A k \in Clients \ {slots'[s].req.key} : rl'[k] = rl[k]
              /\ (rl[slots'[s].req.key].totalHits > 0
                  /\ now - rl[slots'[s].req.key].windowStart >= 900000) =>
                    slots'[s].hit = [totalHits |-> 1, windowStart |-> now]
        /\ (slots[s].pc = "limiter" /\ slots[s].hit.totalHits <= 30) =>
              slots'[s].resp.status # 429

\* C24: the limiter rejects a request only when 30 requests of the same client
\* key have been passed on in the window the request falls into and that
\* window (15 minutes) has not elapsed; a request changes no other key's
\* counter; the first request after the window has elapsed counts as the
\* first of a new window and is admitted.
C24_WindowsAndKeys == [][C24_WindowStep]_vars

\* a client that used up the first window is counted anew in the second
C24_Witness ==
    /\ served["ipA"] = [totalHits |-> 30, windowStart |-> 0]
    /\ now = 900000
    /\ rl["ipB"].totalHits = 1
    /\ slots["s1"].pc = "limiter"
    /\ slots["s1"].req.key = "ipA"
    /\ slots["s1"].hit = [totalHits |-> 1, windowStart |-> 900000]

\* C25: sanitizing a sanitized string (default maximum length) changes
\* nothing: sanitizeString(sanitizeString(s)) = sanitizeString(s).
C25_StringIdempotent ==
    strPc = "twice" => strOut[2] = strOut[1]

\* the strings of one or two hour digits up to 23, a colon and two minute
\* digits up to 59
HourTexts ==
    { NatToStr(h) : h \in 0..23 } \cup { <<"0">> \o NatToStr(h) : h \in 0..9 }

MinuteTexts ==
    { (IF m < 10 THEN <<"0">> ELSE <<>>) \o NatToStr(m) : m \in 0..59 }

ClockTexts == { h \o <<":">> \o m : h \in HourTexts, m \in MinuteTexts }

KeptTime(given, result) ==
    result = IF given.t = "str" /\ given.s \in ClockTexts THEN given ELSE Str(Midnight)

WholeDuration(sub) ==
    /\ sub.k = "obj"
    /\ sub.hours.t = "num"
    /\ sub.minutes.t = "num"

CompleteRecord(given, result) ==
    /\ result.k = "obj"
    /\ result.date.t = "str"
    /\ \A f \in {"totalSleep", "rem", "light", "deep"} : WholeDuration(result[f])
    /\ result.awake.k = "obj"
    /\ result.awake.minutes.t = "num"
    /\ result.sleepTime.k = "obj"
    /\ KeptTime(Prop(Field(given, "sleepTime"), "from"), result.sleepTime.from)
    /\ KeptTime(Prop(Field(given, "sleepTime"), "to"), result.sleepTime.to)

SanitizerResult ==
    sanPc \in {"once", "twice"} =>
        /\ sanOut[1] # Thrown
        /\ sanOut[1] = JsNull <=> sanIn.k \in {"null", "undef", "truthy", "falsy"}
        /\ sanIn.k \in {"obj", "arr"} => CompleteRecord(sanIn, sanOut[1])

ArgumentKept == sanIn' = sanIn

\* C26: sanitizeSleepData always returns: null exactly for null, undefined
\* and values that are not objects, and for every object or array a new
\* complete record of all seven fields whose sleepTime.from and .to are each
\* the given string when it is a clock time H:MM or HH:MM up to 23:59 and
\* '00:00' otherwise; the argument is left as it was.
C26_SanitizerTotal == []SanitizerResult /\ [][ArgumentKept]_vars

C26_Witness ==
    /\ sanPc = "once"
    /\ sanIn.k = "obj"
    /\ sanIn.sleepTime.from = Str(<<"2", "4", ":", "0", "0">>)
    /\ sanIn.sleepTime.to = Str(<<"5", ":", "3", "0">>)
    /\ sanOut[1].sleepTime = TimeSpan(Str(Midnight), Str(<<"5", ":", "3", "0">>))

C26_WitnessArray ==
    /\ sanPc = "once"
    /\ sanIn.k = "arr"
    /\ sanOut[1].k = "obj"
    /\ sanOut[1].totalSleep = Duration(Num(HoursMin), Num(MinutesMin))
    /\ sanOut[1].sleepTime = TimeSpan(Str(Midnight), Str(Midnight))

SeqToSet(q) == { q[i] : i \in 1..Len(q) }

\* the errors that report a part of the record as absent
StructuralErrors ==
    {"Invalid request data", "Sleep start time is required", "Sleep end time is required"}
    \cup { "Field required: " \o f : f \in SeqToSet(REQUIRED_FIELDS) }

\* C27: in the handler the required-field check never fires for a body that
\* is an object: validateRequiredFields of the sanitized body is valid with
\* no errors, and the validation the handler answers from names no field or
\* time as absent; the one structural error a request can get is 'Invalid
\* request data', exactly when the body is not an object.
C27_RequiredNeverFires ==
    \A s \in PostSlots :
        Called(s, "validateSleepData") =>
            /\ IsTruthyObject(slots[s].req.body) =>
                  /\ validateRequiredFields(sanitizeSleepData(slots[s].req.body))
                        = [valid |-> TRUE, errors |-> <<>>]
                  /\ SeqToSet(slots[s].validation.errors) \cap StructuralErrors = {}
            /\ ~IsTruthyObject(slots[s].req.body) =>
                  /\ slots[s].validation.errors = <<"Invalid request data">>
                  /\ slots[s].pc = "done" =>
                        /\ slots[s].resp.status = 400
                        /\ slots[s].resp.body.message = "Invalid request data"

C27_Witness ==
    /\ slots["s1"].pc = "done"
    /\ slots["s1"].req.method = "POST"
    /\ slots["s1"].req.body = EmptyObject
    /\ slots["s1"].trace = <<"sanitizeSleepData", "validateSleepData">>
    /\ slots["s1"].resp.status = 400
    /\ slots["s1"].validation.errors =
          <<"Total sleep duration is required", "REM sleep duration is required",
            "Light sleep duration is required", "Deep sleep duration is required">>

C27_WitnessNotObject ==
    /\ slots["s1"].pc = "done"
    /\ slots["s1"].req.body = JsNull
    /\ slots["s1"].resp.status = 400
    /\ slots["s1"].resp.body.message = "Invalid request data"

\* the slot s leaves the middleware chain in this step: its request is
\* answered or its handler waits for the gateway
LeavesChain(s) ==
    /\ slots[s].pc \in {"idle", "limiter"}
    /\ slots'[s].pc \in {"awaiting", "done"}

\* the slot is as analyzeHandler leaves it for the request
ByAnalyzeHandler(slot) ==
    slot = WithCors(SlotStarted(slot.req, analyzeHandler(slot.req, processEnv)), slot.req)

PreflightAnswered(s) ==
    (LeavesChain(s) /\ slots'[s].req.method = "OPTIONS") =>
        /\ slots[s].pc = "idle"
        /\ slots'[s].pc = "done"
        /\ slots'[s].resp = Response(204, EmptyBody)
        /\ slots'[s].trace = <<>>
        /\ slots'[s].hit = NoHit
        /\ rl' = rl

OtherMethodsNotFound(s) ==
    (LeavesChain(s) /\ slots'[s].req.method \notin {"POST", "OPTIONS"}
     /\ slots'[s].req.path = AnalyzePath) =>
        /\ slots[s].pc = "idle"
        /\ slots'[s].pc = "done"
        /\ slots'[s].resp.status = 404
        /\ slots'[s].trace = <<>>
        /\ rl' = rl

HandlerOnlyForPost(s) ==
    (LeavesChain(s) /\ ByAnalyzeHandler(slots'[s])) =>
        /\ slots'[s].req.method = "POST"
        /\ slots'[s].req.path = AnalyzePath
        /\ slots[s].pc = "limiter"

MethodBranchesDead ==
    \A s \in Slots :
        /\ slots[s].resp.status # 405
        /\ slots[s].resp.body.message # "Method not allowed"
        /\ (slots[s].pc = "done" /\ slots[s].resp.status = 200) =>
              slots[s].resp.body # EmptyBody
        /\ slots[s].pc \in {"limiter", "awaiting"} => slots[s].req.method = "POST"
        /\ slots[s].trace # <<>> => slots[s].req.method = "POST"

HugeTotalBody ==
    [ValidBody EXCEPT !.totalSleep = Duration(Num(Huge), Num(-1)),
                      !.date = Str(<<"n", "o", "w">>)]

\* a record fit for the prompt: numbers within their ranges, the four
\* durations not zero, the date of the YYYY-MM-DD shape, both times clock times
FitForPrompt(r) ==
    /\ r.k = "obj"
    /\ \A g \in NumericLeafRanges :
          r[g.f][g.p].t = "num" /\ r[g.f][g.p].n \in g.lo..g.hi
    /\ \A f \in {"totalSleep", "rem", "light", "deep"} :
          r[f].hours.n > 0 \/ r[f].minutes.n > 0
    /\ r.date.t = "str" /\ DateRegexMatches(r.date.s)
    /\ r.sleepTime.from.t = "str" /\ r.sleepTime.from.s \in ClockTexts
    /\ r.sleepTime.to.t = "str" /\ r.sleepTime.to.s \in ClockTexts

BuiltFrom(prompts, r) ==
    /\ FitForPrompt(r)
    /\ prompts.userPrompt = Listing(r)
    /\ prompts.systemPrompt = SYSTEM_PROMPT

\* C29: the user prompt of every request for which the gateway is called
\* lists the values of the sanitized body and of nothing else, and that
\* record has every number within its range, total, REM, light and deep
\* sleep each longer than zero, a date of the YYYY-MM-DD shape and two clock
\* times.
C29_PromptFromSanitized ==
    \A s \in PostSlots :
        Called(s, "sendChatCompletion") =>
            BuiltFrom(slots[s].prompts, sanitizeSleepData(slots[s].req.body))

C29_Witness ==
    /\ slots["s1"].pc = "awaiting"
    /\ slots["s1"].req.body = HugeTotalBody
    /\ slots["s1"].prompts.userPrompt =
          "Analysiere folgende Schlaf-Daten vom 2026-11-03:\n\n"
          \o "- Gesamtschlaf: 24h 0min\n- Wach (Awake): 5min\n"
          \o "- REM-Schlaf: 1h 30min\n- Kern-Schlaf (Light): 3h 0min\n"
          \o "- Tief-Schlaf (Deep): 2h 30min\n- Zeitspanne: 22:00 - 05:30"

(***************************************************************************)
(* docs/app.js: the page.  fnIn holds the values of the form's inputs,     *)
(* fnOut the page (which sections carry the class 'hidden', whether the    *)
(* submit button is disabled, the error text, the classes of the result    *)
(* cards) and fnPc the number of runs of handleFormSubmit that wait for    *)
(* the backend.  A control takes an event only while its section is shown. *)
(***************************************************************************)
Page(form, loading, results, error, disabled, message, cards) ==
    [formSection |-> form, loadingState |-> loading, resultsSection |-> results,
     errorSection |-> error, submitBtn |-> disabled, errorMessage |-> message,
     resultsContent |-> cards]

FormValues(tsh, tsm, remh, remm, lighth, lightm, deeph, deepm, start, end) ==
    [date |-> Today, totalSleepHours |-> tsh, totalSleepMinutes |-> tsm,
     awake |-> <<"5">>, remHours |-> remh, remMinutes |-> remm,
     lightHours |-> lighth, lightMinutes |-> lightm,
     deepHours |-> deeph, deepMinutes |-> deepm,
     sleepStart |-> start, sleepEnd |-> end]

\* parseInt(value) || 0 of an input's value
IntOrZero(value) ==
    IF parseInt(Str(value)).nan THEN 0 ELSE parseInt(Str(value)).v

collectFormData(form) ==
    [k |-> "obj",
     date |-> Str(form.date),
     totalSleep |-> Duration(Num(IntOrZero(form.totalSleepHours)),
                             Num(IntOrZero(form.totalSleepMinutes))),
     awake |-> OnlyMinutes(Num(IntOrZero(form.awake))),
     rem   |-> Duration(Num(IntOrZero(form.remHours)), Num(IntOrZero(form.remMinutes))),
     light |-> Duration(Num(IntOrZero(form.lightHours)), Num(IntOrZero(form.lightMinutes))),
     deep  |-> Duration(Num(IntOrZero(form.deepHours)), Num(IntOrZero(form.deepMinutes))),
     sleepTime |-> TimeSpan(Str(form.sleepStart), Str(form.sleepEnd))]

\* !d.hours && !d.minutes
NoTime(d) == d.hours.n = 0 /\ d.minutes.n = 0

\* validateSleepData of app.js: the message of the error it throws, "" when
\* it returns
appValidateSleepData(data) ==
    IF NoTime(data.totalSleep) THEN "Gesamtschlaf erforderlich"
    ELSE IF NoTime(data.rem) THEN "REM-Schlaf erforderlich"
    ELSE IF NoTime(data.light) THEN "Kern-Schlaf erforderlich"
    ELSE IF NoTime(data.deep) THEN "Tief-Schlaf erforderlich"
    ELSE IF data.sleepTime.from.s = <<>> \/ data.sleepTime.to.s = <<>>
    THEN "Zeitspanne erforderlich"
    ELSE ""

\* what the backend call comes to: fetch rejects with msg, or a response
\* with ok and status whose json() rejects with msg ("reject"), gives null
\* ("null") or gives an object ("object") with the property message and, as
\* a result, the properties of data
BackendOutcome(kind, msg, ok, status, json, message, data) ==
    [kind |-> kind, msg |-> msg, ok |-> ok, status |-> status, json |-> json,
     message |-> message, data |-> data]

ResultData(rawData, score, analysis, trend, recommendation) ==
    [k |-> "obj", rawData |-> rawData, score |-> score, analysis |-> analysis,
     trend |-> trend, recommendation |-> recommendation]

NoData == [ResultData(Undef, Undef, Undef, Undef, Undef) EXCEPT !.k = "null"]

Threw(message, page) == [threw |-> TRUE, message |-> message, data |-> NoData, page |-> page]
Returned(data, page) == [threw |-> FALSE, message |-> "", data |-> data, page |-> page]

\* sendToBackend from the point where fetch settles: every error is thrown
\* again as 'Verbindungsfehler: ...'
sendToBackend(outcome, page) ==
    IF outcome.kind = "reject"
    THEN Threw("Verbindungsfehler: " \o outcome.msg, page)
    ELSE IF ~outcome.ok
    THEN IF outcome.json = "null"
         THEN Threw("Verbindungsfehler: Cannot read properties of null (reading 'message')",
                      page)
         ELSE IF outcome.json = "object" /\ outcome.message # ""
         THEN Threw("Verbindungsfehler: " \o outcome.message, page)
         ELSE Threw("Verbindungsfehler: API-Fehler: " \o Text(NatToStr(outcome.status)),
                      page)
    ELSE IF outcome.json = "reject"
    THEN Threw("Verbindungsfehler: " \o outcome.msg, page)
    ELSE Returned(IF outcome.json = "null" THEN NoData ELSE outcome.data, page)

showLoadingState(page) ==
    [page EXCEPT !.formSection = TRUE, !.resultsSection = TRUE, !.errorSection = TRUE,
                 !.loadingState = FALSE, !.submitBtn = TRUE]

showErrorState(page, message) ==
    [page EXCEPT !.formSection = TRUE, !.resultsSection = TRUE, !.errorSection = FALSE,
                 !.loadingState = TRUE, !.errorMessage = message, !.submitBtn = FALSE]

resetForm(page) ==
    [page EXCEPT !.formSection = FALSE, !.resultsSection = TRUE, !.errorSection = TRUE,
                 !.loadingState = TRUE, !.submitBtn = FALSE]

CardFields == <<"rawData", "score", "analysis", "trend", "recommendation">>
CardClasses == <<"data", "score", "analysis", "trend", "recommendation">>

\* escapeHtml(content) throws for a truthy content without replace; the raw
\* data go through formatRawData, which gives a string for whatever it gets
EscapeThrows(field, content) == field # "rawData" /\ content.t # "str"

RECURSIVE ResultCards(_, _, _)
\* the cards of the properties from the i-th on, added to the page one by one
ResultCards(response, i, page) ==
    IF i > Len(CardFields) THEN Returned(response, page)
    ELSE IF ~Truthy(response[CardFields[i]]) THEN ResultCards(response, i + 1, page)
    ELSE IF EscapeThrows(CardFields[i], response[CardFields[i]])
    THEN Threw("unsafe.replace is not a function", page)
    ELSE ResultCards(response, i + 1,
                     [page EXCEPT !.resultsContent = Append(@, CardClasses[i])])

\* a variant that leaves the loading section as it is
displayResultsKeepLoading(page, response) ==
    IF response.k = "null"
    THEN Threw("Cannot destructure property 'analysis' of 'response' as it is null.",
                 [page EXCEPT !.resultsSection = FALSE,
                              !.submitBtn = FALSE, !.resultsContent = <<>>])
    ELSE ResultCards(response, 1,
                     [page EXCEPT !.resultsSection = FALSE,
                                  !.submitBtn = FALSE, !.resultsContent = <<>>])

\* the sections and the button are set before the response is taken apart
displayResults(page, response) ==
    IF response.k = "null"
    THEN Threw("Cannot destructure property 'analysis' of 'response' as it is null.",
                 [page EXCEPT !.loadingState = TRUE, !.resultsSection = FALSE,
                              !.submitBtn = FALSE, !.resultsContent = <<>>])
    ELSE ResultCards(response, 1,
                     [page EXCEPT !.loadingState = TRUE, !.resultsSection = FALSE,
                                  !.submitBtn = FALSE, !.resultsContent = <<>>])

\* handleFormSubmit up to the await: the message thrown, "" when the call
\* to the backend is under way
SubmitFails(form, valid) ==
    IF ~valid THEN "Bitte fülle alle Felder aus"
    ELSE appValidateSleepData(collectFormData(form))

\* handleFormSubmit from the await on
handleFormSubmitResumed(page, sent) ==
    IF sent.threw THEN showErrorState(page, sent.message)
    ELSE IF displayResults(page, sent.data).threw
    THEN showErrorState(displayResults(page, sent.data).page,
                        displayResults(page, sent.data).message)
    ELSE displayResults(page, sent.data).page

BlankForm == FormValues(<<>>, <<>>, <<>>, <<>>, <<>>, <<>>, <<>>, <<>>, <<>>, <<>>)

FilledForm ==
    FormValues(<<"7">>, <<"3", "0">>, <<"1">>, <<"3", "0">>, <<"3">>, <<"0">>,
               <<"2">>, <<"3", "0">>, <<"2", "2", ":", "0", "0">>,
               <<"0", "5", ":", "3", "0">>)

Forms ==
    { BlankForm, FilledForm,
      [FilledForm EXCEPT !.totalSleepHours = <<"0">>, !.totalSleepMinutes = <<>>],
      [FilledForm EXCEPT !.remHours = <<>>, !.remMinutes = <<"0">>],
      [FilledForm EXCEPT !.lightHours = <<"0">>, !.lightMinutes = <<"0">>],
      [FilledForm EXCEPT !.deepHours = <<"a">>, !.deepMinutes = <<>>],
      [FilledForm EXCEPT !.sleepStart = <<>>],
      [FilledForm EXCEPT !.sleepEnd = <<>>] }

Words(w) == Str(<<w>>)

BackendOutcomes ==
    { BackendOutcome("reject", "Failed to fetch", FALSE, 0, "", "", NoData),
      BackendOutcome("response", "", FALSE, 400, "object", "", NoData),
      BackendOutcome("response", "", FALSE, 500, "object", "boom", NoData),
      BackendOutcome("response", "bad json", FALSE, 429, "reject", "", NoData),
      BackendOutcome("response", "", FALSE, 502, "null", "", NoData),
      BackendOutcome("response", "bad json", TRUE, 200, "reject", "", NoData),
      BackendOutcome("response", "", TRUE, 200, "null", "", NoData),
      BackendOutcome("response", "", TRUE, 200, "object", "",
                     ResultData(Undef, Words("s"), Words("a"), Words("t"), Words("r"))),
      BackendOutcome("response", "", TRUE, 200, "object", "",
                     ResultData(Obj, Words("s"), Words("a"), Undef, Undef)),
      BackendOutcome("response", "", TRUE, 200, "object", "",
                     ResultData(Undef, Num(94), Words("a"), Undef, Undef)),
      BackendOutcome("response", "", TRUE, 201, "object", "",
                     ResultData(Undef, Undef, Undef, Undef, Undef)) }

\* the page as it is loaded: the form, nothing else
FrontInit ==
    /\ fnIn = BlankForm
    /\ fnOut = Page(FALSE, TRUE, TRUE, TRUE, FALSE, "", <<>>)
    /\ fnPc = 0
    /\ SanIdle /\ StrIdle
    /\ processEnv = [apiKey |-> TRUE, nodeEnv |-> "production"]
    /\ slots = [s \in Slots |-> IdleSlot]
    /\ rl = [k \in Clients |-> NoHit] /\ now = 0 /\ served = [k \in Clients |-> NoHit]

\* the user fills the form in
Fill(form) ==
    /\ ~fnOut.formSection
    /\ fnIn' = form
    /\ UNCHANGED <<fnOut, fnPc, sanIn, sanOut, sanPc, strIn, strOut, strPc, processEnv, slots, rl, now, served>>

\* the submit event: handleFormSubmit up to the await or to its catch
FormSubmit(valid) ==
    /\ ~fnOut.formSection
    /\ ~fnOut.submitBtn
    /\ IF SubmitFails(fnIn, valid) # ""
       THEN fnOut' = showErrorState(fnOut, SubmitFails(fnIn, valid)) /\ fnPc' = fnPc
       ELSE fnOut' = showLoadingState(fnOut) /\ fnPc' = fnPc + 1
    /\ UNCHANGED <<fnIn, sanIn, sanOut, sanPc, strIn, strOut, strPc, processEnv, slots, rl, now, served>>

\* the backend call of a waiting run settles and the run goes on to its end
BackendSettles(outcome) ==
    /\ fnPc > 0
    /\ fnOut' = handleFormSubmitResumed(fnOut, sendToBackend(outcome, fnOut))
    /\ fnPc' = fnPc - 1
    /\ UNCHANGED <<fnIn, sanIn, sanOut, sanPc, strIn, strOut, strPc, processEnv, slots, rl, now, served>>

\* a click on the back button of the results or of the error section
BackClick ==
    /\ ~fnOut.resultsSection \/ ~fnOut.errorSection
    /\ fnOut' = resetForm(fnOut)
    /\ fnIn' = BlankForm
    /\ UNCHANGED <<fnPc, sanIn, sanOut, sanPc, strIn, strOut, strPc, processEnv, slots, rl, now, served>>

AnySettles == \E outcome \in BackendOutcomes : BackendSettles(outcome)

FrontNext ==
    \/ \E form \in Forms : Fill(form)
    \/ \E valid \in BOOLEAN : FormSubmit(valid)
    \/ AnySettles
    \/ BackClick

SpecFront == FrontInit /\ [][FrontNext]_vars

\* the backend call of a waiting run settles at some time
SpecFrontLive == SpecFront /\ WF_vars(AnySettles)

Sections == {"formSection", "loadingState", "resultsSection", "errorSection"}

Shows(section) == ~fnOut[section]

OneSectionShown ==
    /\ Cardinality({ section \in Sections : Shows(section) }) = 1
    /\ fnOut.submitBtn <=> Shows("loadingState")
    /\ fnPc = IF Shows("loadingState") THEN 1 ELSE 0

C30_WitnessLoading ==
    /\ Shows("loadingState")
    /\ fnOut.submitBtn
    /\ fnOut.errorMessage = "Zeitspanne erforderlich"
    /\ fnPc = 1

====
